---------------------------- MODULE Spec2Model ----------------------------
(***************************************************************************)
(* Model of the subtitle pipeline of VideoTranSrt (native C++ core):       *)
(* the timing pre-pass of the three emitters (SRT, WebVTT, ASS), the       *)
(* bilingual combiners, the translators with the OpenAI batch grouper,     *)
(* the merging of segments, Processor::process, the Qt main window with    *)
(* its worker thread, the timestamp formatters, ModelManager, and          *)
(* concurrent Processor::process calls sharing the temporary directory.    *)
(*                                                                         *)
(* Times are counted in ticks of 0.5 s (Segment::start / Segment::end are  *)
(* doubles in seconds; every value used there is a multiple of 0.5 s,      *)
(* which a double represents exactly, so the arithmetic is the code's).    *)
(* The timestamp formatters take times in milliseconds and compute on      *)
(* binary64 doubles, modelled bit by bit.  A text is a sequence of         *)
(* one-character strings.                                                  *)
(***************************************************************************)
EXTENDS Integers, Sequences, FiniteSets, TLC

VARIABLES
    entry,               \* the emitter function the caller invoked
    pc,                  \* position of the emitter call
    fmt,                 \* output format: "srt", "vtt" or "ass"
    original_segments,   \* argument of create_bilingual_*
    translated_segments, \* argument of create_bilingual_*
    caller_min_duration, \* the min_duration the caller holds
    segments,            \* parameter of format_segments
    min_duration,        \* parameter of format_segments
    fixed,               \* the vector the timing pre-pass builds
    last_end,            \* local of the overlap loop
    pos,                 \* index of the overlap loop (1-based)
    content,             \* the string the emitter returns, as characters
    tpc,                 \* position of the translate_segments call
    translator,          \* "simple", "google" or "openai"
    batch_mode,          \* opts_.batch_mode
    retry_count,         \* opts_.retry_count
    max_batch_chars,     \* opts_.max_batch_chars
    max_batch_segments,  \* opts_.max_batch_segments
    in_segments,         \* parameter segments of translate_segments
    result_segments,     \* result.segments
    groups,              \* local groups of the aggregated translation
    cur,                 \* loop index: segment (per-segment) or group (batch)
    attempt,             \* loop variable of the retry loop in progress
    translated_lists,    \* translated_list of each finished group, in order
    last_call,           \* the last translate_text / translate_texts_batch
                         \* call that returned: value, attempts made, failed
    mpc,                 \* position of the merge_segments call
    m_segments,          \* parameter segments of merge_segments
    m_max_duration,      \* parameter max_duration of merge_segments
    m_max_chars,         \* parameter max_chars of merge_segments
    merged,              \* local merged of merge_segments
    current,             \* local current of merge_segments (the accumulator)
    mi,                  \* loop index i of merge_segments (1-based)
    ppc,                 \* position of the Processor::process call
    input_path,          \* what input_path names: "missing", "unsupported", "ok"
    config_,             \* Processor::config_ (the fields process reads)
    progress,            \* the values passed to progress_callback, in percent
    temp_dir,            \* the temporary directory: "none", "present", "removed"
    processed_segments,  \* local processed_segments of process
    translation_result,  \* local translation_result of process (an optional)
    save_calls,          \* number of calls of save_srt / save_vtt / save_ass
    save_ok,             \* local save_ok of process
    p_result,            \* the ProcessingResult process returns
    m_processing,        \* MainWindow::m_processing
    start_enabled,       \* m_startBtn is enabled
    dialog_open,         \* a ModelManagerDialog is in exec()
    m_dirEdit,           \* text of ModelManagerDialog::m_dirEdit
    s_model_dir,         \* ModelManager::s_model_dir
    config_model_dir,    \* model_dir stored in config/config.json ("" if none)
    wpc,                 \* position of the worker thread
    w_model_dir,         \* the directory the worker got from get_model_dir
    read_raced,          \* s_model_dir was written while the worker read it
    finished_queued,     \* Worker::finished is queued for the GUI thread
    started,             \* number of workers started (thread->start())
    emitted,             \* number of Worker::finished signals emitted
    handled,             \* number of MainWindow::onFinished calls
    ts_pc,               \* position of the format_srt_time / format_vtt_time call
    ts_formatter,        \* which of the two is called: "srt" or "vtt"
    seconds_ms,          \* argument seconds of the call, in whole milliseconds
    timestamp,           \* the string the call returns, as characters
    mm_pc,               \* position of the ModelManager call
    mm_call,             \* the ModelManager function called
    mm_size,             \* argument size of the call
    mm_path,             \* local path of the call: the file name it works on
    files,               \* content of each model file in the model directory
    url_i,               \* index i of the candidate_urls loop of download_model (1-based)
    dl_success,          \* local success of download_model
    mm_returned,         \* the value the call returned
    infos,               \* the is_downloaded flags list_models returned, by identifier
    platform,            \* the build: "win32" or "other"
    files_before,        \* files when the call in progress began
    mm_calls,            \* number of ModelManager calls begun
    job_pc,              \* position of each job in Processor::process
    job_dir,             \* temp_dir of each job (0: not created yet)
    job_read,            \* what transcribe found at audio_path of each job
    tmp                  \* the video2srt_NNNN directories under temp_directory_path()

emitter_vars == <<entry, pc, fmt, original_segments, translated_segments,
                  caller_min_duration, segments, min_duration, fixed,
                  last_end, pos, content>>

translator_vars == <<tpc, translator, batch_mode, retry_count,
                     max_batch_chars, max_batch_segments, in_segments,
                     result_segments, groups, cur, attempt, translated_lists,
                     last_call>>

merge_vars == <<mpc, m_segments, m_max_duration, m_max_chars, merged,
               current, mi>>

process_vars == <<ppc, input_path, config_, progress, temp_dir,
                  processed_segments, translation_result, save_calls,
                  save_ok, p_result>>

gui_vars == <<m_processing, start_enabled, dialog_open, m_dirEdit, s_model_dir,
              config_model_dir, wpc, w_model_dir, read_raced, finished_queued,
              started, emitted, handled>>

time_vars == <<ts_pc, ts_formatter, seconds_ms, timestamp>>

models_vars == <<mm_pc, mm_call, mm_size, mm_path, files, url_i, dl_success,
                mm_returned, infos, platform, files_before, mm_calls>>

jobs_vars == <<job_pc, job_dir, job_read, tmp>>

vars == <<emitter_vars, translator_vars, merge_vars, process_vars, gui_vars,
    time_vars, models_vars, jobs_vars>>

\* what an action of one component leaves alone
outside_emitter == <<translator_vars, merge_vars, process_vars, gui_vars,
    time_vars, models_vars, jobs_vars>>

outside_translator == <<emitter_vars, merge_vars, process_vars, gui_vars, time_vars,
    models_vars, jobs_vars>>

outside_merge == <<emitter_vars, translator_vars, process_vars, gui_vars,
    time_vars, models_vars, jobs_vars>>

outside_process == <<translator_vars, merge_vars, gui_vars, time_vars, models_vars,
    jobs_vars>>

outside_gui == <<emitter_vars, translator_vars, merge_vars, process_vars,
    time_vars, models_vars, jobs_vars>>

outside_time == <<emitter_vars, translator_vars, merge_vars, process_vars, gui_vars,
    models_vars, jobs_vars>>

outside_models == <<emitter_vars, translator_vars, merge_vars, process_vars, gui_vars, time_vars,
    jobs_vars>>

outside_jobs == <<emitter_vars, translator_vars, merge_vars, process_vars, gui_vars,
    time_vars, models_vars>>

----------------------------------------------------------------------------
(* Bounds of the model *)

\* longest segment list handed to an emitter
MaxSegs == 2

\* default argument of SRTFormatter::format_segments: 0.5 s = 1 tick
DefaultMinDurationSrt == 1

\* default argument of WebVTTFormatter::format_segments: 0.5 s = 1 tick
DefaultMinDurationVtt == 1

Formats == {"srt", "vtt", "ass"}

\* sample end times, in ticks: one negative, two positive
Times == {-1, 1, 2}

\* sample min_duration arguments: negative, zero, and two ticks (1.0 s, the
\* default of ProcessingConfig::min_segment_duration)
MinDurations == {-1, 0, 2}

\* texts of the timing inputs: blank, padded on the left, padded on the right
Texts == { <<" ">>, <<" ", "a">>, <<"b", "\n">> }

Segment(s, e, t) == [start |-> s, end |-> e, text |-> t]

\* sample start times: one negative, zero, one positive
StartTimes == {-1, 0, 1}

SegmentSet == { Segment(s, e, t) : s \in StartTimes, e \in Times, t \in Texts }

\* a two-cue input with an overlap: 0.0-2.0 "Hello", 1.5-3.0 "World"
HelloWorld ==
    << Segment(0, 4, <<"H", "e", "l", "l", "o">>),
       Segment(3, 6, <<"W", "o", "r", "l", "d">>) >>

SeqsUpTo(S, n) == UNION { [1 .. k -> S] : k \in 0 .. n }

----------------------------------------------------------------------------
(* Text helpers *)

\* std::isspace in the "C" locale (the vertical tab has no TLA+ escape and
\* occurs in no text of the model)
isspace(ch) == ch \in {" ", "\t", "\n", "\r", "\f"}

RECURSIVE TrimLeft(_)
TrimLeft(t) ==
    IF t # <<>> /\ isspace(Head(t)) THEN TrimLeft(Tail(t)) ELSE t

RECURSIVE TrimRight(_)
TrimRight(t) ==
    IF t # <<>> /\ isspace(t[Len(t)])
    THEN TrimRight(SubSeq(t, 1, Len(t) - 1))
    ELSE t

trim(t) == TrimRight(TrimLeft(t))

NonBlank(seg) == trim(seg.text) # <<>>

----------------------------------------------------------------------------
(* Timing pre-pass, first loop: drop blank text, trim, normalise *)

\* fix_segments_for_vtt, body of the first loop
NormalizeVtt(seg, md) ==
    LET s0 == [seg EXCEPT !.text = trim(seg.text)]
        s1 == IF s0.start < 0 THEN [s0 EXCEPT !.start = 0] ELSE s0
        s2 == IF s1.end <= s1.start
              THEN [s1 EXCEPT !.end = s1.start + md] ELSE s1
        s3 == IF (s2.end - s2.start) < md
              THEN [s2 EXCEPT !.end = s2.start + md] ELSE s2
    IN  s3

\* fix_segments_for_ass, body of the first loop
NormalizeAss(seg, md) ==
    LET s0 == [seg EXCEPT !.text = trim(seg.text)]
        s1 == IF s0.start < 0 THEN [s0 EXCEPT !.start = 0] ELSE s0
        s2 == IF s1.end <= s1.start
              THEN [s1 EXCEPT !.end = s1.start + md] ELSE s1
        s3 == IF (s2.end - s2.start) < md
              THEN [s2 EXCEPT !.end = s2.start + md] ELSE s2
    IN  s3

\* SRTFormatter::fix_segment_timing, body of the first loop
NormalizeSrt(seg) ==
    LET s0 == [seg EXCEPT !.text = trim(seg.text)]
        s1 == IF s0.start < 0 THEN [s0 EXCEPT !.start = 0] ELSE s0
        s2 == IF s1.end < 0 THEN [s1 EXCEPT !.end = 0] ELSE s1
    IN  s2

HasDuration(seg) == NonBlank(seg) /\ seg.end > seg.start

\* NormalizeAll dropping, besides blank text, segments of no duration
NormalizeAllDropDegenerate(f, segs, md) ==
    LET kept == SelectSeq(segs, HasDuration)
    IN  [i \in 1 .. Len(kept) |->
            CASE f = "srt" -> NormalizeSrt(kept[i])
              [] f = "vtt" -> NormalizeVtt(kept[i], md)
              [] f = "ass" -> NormalizeAss(kept[i], md)]

\* the first loop of the pre-pass of format f
NormalizeAll(f, segs, md) ==
    LET kept == SelectSeq(segs, NonBlank)
    IN  [i \in 1 .. Len(kept) |->
            CASE f = "srt" -> NormalizeSrt(kept[i])
              [] f = "vtt" -> NormalizeVtt(kept[i], md)
              [] f = "ass" -> NormalizeAss(kept[i], md)]

----------------------------------------------------------------------------
(* std::sort by start: any permutation that is ordered by start.  std::sort *)
(* is not stable, so every ordered arrangement of ties is a possible result *)

IsSortedByStart(s) ==
    \A i \in 1 .. Len(s) - 1 : ~(s[i + 1].start < s[i].start)

Perms(n) ==
    { p \in [1 .. n -> 1 .. n] : \A i, j \in 1 .. n : p[i] = p[j] => i = j }

SortResults(s) ==
    { r \in { [i \in 1 .. Len(s) |-> s[p[i]]] : p \in Perms(Len(s)) } :
        IsSortedByStart(r) }

----------------------------------------------------------------------------
(* Timing pre-pass, second loop: one iteration on segment s *)

\* fix_segments_for_vtt
OverlapVtt(s, le, md) ==
    LET s1 == IF s.start < le THEN [s EXCEPT !.start = le] ELSE s
        s2 == IF s1.end <= s1.start
              THEN [s1 EXCEPT !.end = s1.start + md] ELSE s1
    IN  s2

\* fix_segments_for_ass
OverlapAss(s, le, md) ==
    LET s1 == IF s.start < le THEN [s EXCEPT !.start = le] ELSE s
        s2 == IF s1.end <= s1.start
              THEN [s1 EXCEPT !.end = s1.start + md] ELSE s1
    IN  s2

\* OverlapSrt without the forward shift of an overlapping start
OverlapSrtNoShift(s, le, md) ==
    LET s2 == IF s.end <= s.start THEN [s EXCEPT !.end = s.start + md] ELSE s
        s3 == IF (s2.end - s2.start) < md
              THEN [s2 EXCEPT !.end = s2.start + md] ELSE s2
    IN  s3

\* SRTFormatter::fix_segment_timing
OverlapSrt(s, le, md) ==
    LET s1 == IF s.start < le THEN [s EXCEPT !.start = le] ELSE s
        s2 == IF s1.end <= s1.start
              THEN [s1 EXCEPT !.end = s1.start + md] ELSE s1
        s3 == IF (s2.end - s2.start) < md
              THEN [s2 EXCEPT !.end = s2.start + md] ELSE s2
    IN  s3

OverlapOne(f, s, le, md) ==
    CASE f = "srt" -> OverlapSrt(s, le, md)
      [] f = "vtt" -> OverlapVtt(s, le, md)
      [] f = "ass" -> OverlapAss(s, le, md)

----------------------------------------------------------------------------
(* Bilingual combiners: the segment list each hands to format_segments *)

\* create_bilingual_srt pairing the common prefix of lists of unequal length
create_bilingual_srt_prefix(orig, trans) ==
    LET n == IF Len(orig) < Len(trans) THEN Len(orig) ELSE Len(trans)
    IN  [i \in 1 .. n |->
            [orig[i] EXCEPT !.text = orig[i].text \o <<"\n">> \o trans[i].text]]

\* SRTFormatter::create_bilingual_srt
create_bilingual_srt(orig, trans) ==
    IF Len(orig) # Len(trans)
    THEN orig
    ELSE [i \in 1 .. Len(orig) |->
            [orig[i] EXCEPT !.text = orig[i].text \o <<"\n">> \o trans[i].text]]

\* WebVTTFormatter::create_bilingual_vtt
create_bilingual_vtt(orig, trans) ==
    IF Len(orig) # Len(trans)
    THEN orig
    ELSE [i \in 1 .. Len(orig) |->
            [orig[i] EXCEPT !.text = orig[i].text \o <<"\n">> \o trans[i].text]]

\* create_bilingual_ass building each cue from the translated segment
create_bilingual_ass_from_trans(orig, trans) ==
    IF Len(orig) # Len(trans)
    THEN orig
    ELSE [i \in 1 .. Len(orig) |->
            [trans[i] EXCEPT !.text = orig[i].text \o <<"\n">> \o trans[i].text]]

\* ASSFormatter::create_bilingual_ass
create_bilingual_ass(orig, trans) ==
    IF Len(orig) # Len(trans)
    THEN orig
    ELSE [i \in 1 .. Len(orig) |->
            [orig[i] EXCEPT !.text = orig[i].text \o <<"\n">> \o trans[i].text]]

\* the min_duration each combiner's format_segments call runs with: the ASS
\* combiner passes its own argument on, the SRT and VTT combiners have none
\* and call format_segments with its default
BilingualMinDuration(f, md) ==
    CASE f = "srt" -> DefaultMinDurationSrt
      [] f = "vtt" -> DefaultMinDurationVtt
      [] f = "ass" -> md

----------------------------------------------------------------------------
(* Actions of an emitter call *)

\* create_bilingual_srt / _vtt / _ass up to its call of format_segments
CreateBilingual ==
    /\ pc = "create_bilingual"
    /\ segments' =
          CASE fmt = "srt" ->
                 create_bilingual_srt(original_segments, translated_segments)
            [] fmt = "vtt" ->
                 create_bilingual_vtt(original_segments, translated_segments)
            [] fmt = "ass" ->
                 create_bilingual_ass(original_segments, translated_segments)
    /\ min_duration' = BilingualMinDuration(fmt, caller_min_duration)
    /\ pc' = "format_segments"
    /\ UNCHANGED <<entry, fmt, original_segments, translated_segments,
                   caller_min_duration, fixed, last_end, pos>>
    /\ UNCHANGED <<content, outside_emitter>>

\* format_segments up to the end of the first loop of the pre-pass
FixNormalize ==
    /\ pc = "format_segments"
    /\ IF fmt = "srt" /\ segments = <<>>
       THEN /\ pc' = "done"
            /\ fixed' = <<>>
            /\ content' = <<>>
       ELSE /\ pc' = "sort"
            /\ fixed' = NormalizeAll(fmt, segments, min_duration)
            /\ UNCHANGED content
    /\ UNCHANGED <<entry, fmt, original_segments, translated_segments,
                   caller_min_duration, segments, min_duration, last_end, pos>>
    /\ UNCHANGED outside_emitter

\* std::sort and the initialisation of the second loop
FixSort ==
    /\ pc = "sort"
    /\ \E r \in SortResults(fixed) : fixed' = r
    /\ last_end' = 0
    /\ pos' = 1
    /\ pc' = "overlap"
    /\ UNCHANGED <<entry, fmt, original_segments, translated_segments,
                   caller_min_duration, segments, min_duration>>
    /\ UNCHANGED <<content, outside_emitter>>

\* one iteration of the second loop that resolves an overlap by cutting the
\* previous segment short
FixOverlapStepTrimPrevious ==
    /\ pc = "overlap"
    /\ pos <= Len(fixed)
    /\ fixed' = IF pos > 1 /\ fixed[pos].start < last_end
                THEN [fixed EXCEPT ![pos - 1].end = fixed[pos].start]
                ELSE fixed
    /\ last_end' = fixed[pos].end
    /\ pos' = pos + 1
    /\ UNCHANGED <<entry, pc, fmt, original_segments, translated_segments,
                   caller_min_duration, segments, min_duration>>
    /\ UNCHANGED <<content, outside_emitter>>

\* one iteration of the second loop
FixOverlapStep ==
    /\ pc = "overlap"
    /\ pos <= Len(fixed)
    /\ LET s == OverlapOne(fmt, fixed[pos], last_end, min_duration)
       IN  /\ fixed' = [fixed EXCEPT ![pos] = s]
           /\ last_end' = s.end
    /\ pos' = pos + 1
    /\ UNCHANGED <<entry, pc, fmt, original_segments, translated_segments,
                   caller_min_duration, segments, min_duration>>
    /\ UNCHANGED <<content, outside_emitter>>

\* the pre-pass returns the corrected vector to the serialiser
FixReturn ==
    /\ pc = "overlap"
    /\ pos > Len(fixed)
    /\ pc' = "emit"
    /\ UNCHANGED <<entry, fmt, original_segments, translated_segments,
                   caller_min_duration, segments, min_duration, fixed,
                   last_end, pos>>
    /\ UNCHANGED <<content, outside_emitter>>

----------------------------------------------------------------------------
(* Serialisation: the characters an emitter writes for the corrected list. *)
(* A literal of several characters that no property looks into is one      *)
(* element; every line feed is an element of its own.                      *)

Digit(d) == <<"0", "1", "2", "3", "4", "5", "6", "7", "8", "9">>[d + 1]

\* operator<< of a non-negative int
RECURSIVE Decimal(_)
Decimal(n) ==
    IF n < 10 THEN <<Digit(n)>> ELSE Decimal(n \div 10) \o <<Digit(n % 10)>>

\* std::setw(w) with std::setfill('0')
Pad(n, w) ==
    LET d == Decimal(n)
    IN  IF Len(d) >= w THEN d ELSE [i \in 1 .. w - Len(d) |-> "0"] \o d

\* one second is two ticks
TicksPerSecond == 2

\* the literals 3600 and 60 (seconds), in ticks
TicksPerHour == 3600 * TicksPerSecond

TicksPerMinute == 60 * TicksPerSecond

\* the fields hours, minutes, secs and the fraction (in ticks) of a time
TimeFields(t) ==
    LET seconds == IF t < 0 THEN 0 ELSE t
        hours   == seconds \div TicksPerHour
        minutes == (seconds - hours * TicksPerHour) \div TicksPerMinute
        rem     == seconds - hours * TicksPerHour - minutes * TicksPerMinute
        secs    == rem \div TicksPerSecond
    IN  [hours |-> hours, minutes |-> minutes, secs |-> secs,
         frac |-> rem - secs * TicksPerSecond]

\* format_srt_time: HH:MM:SS,mmm
format_srt_time(t) ==
    LET f == TimeFields(t)
    IN  Pad(f.hours, 2) \o <<":">> \o Pad(f.minutes, 2) \o <<":">>
        \o Pad(f.secs, 2) \o <<",">> \o Pad((f.frac * 1000) \div TicksPerSecond, 3)

\* WebVTTFormatter::format_vtt_time: HH:MM:SS.mmm
format_vtt_time(t) ==
    LET f == TimeFields(t)
    IN  Pad(f.hours, 2) \o <<":">> \o Pad(f.minutes, 2) \o <<":">>
        \o Pad(f.secs, 2) \o <<".">> \o Pad((f.frac * 1000) \div TicksPerSecond, 3)

\* ASSFormatter::format_ass_time: H:MM:SS.cc
format_ass_time(t) ==
    LET f == TimeFields(t)
    IN  Decimal(f.hours) \o <<":">> \o Pad(f.minutes, 2) \o <<":">>
        \o Pad(f.secs, 2) \o <<".">> \o Pad((f.frac * 100) \div TicksPerSecond, 2)

\* ass_escape_text: a line feed or carriage return becomes \N
RECURSIVE ass_escape_text(_)
ass_escape_text(t) ==
    IF t = <<>> THEN <<>>
    ELSE (IF Head(t) \in {"\n", "\r"} THEN <<"\\", "N">> ELSE <<Head(t)>>)
         \o ass_escape_text(Tail(t))

\* SRTFormatter::format_segment with every block given the index 1
format_segment_index_one(seg, index) ==
    <<"1">> \o <<"\n">>
    \o format_srt_time(seg.start) \o <<" --> ">> \o format_srt_time(seg.end)
    \o <<"\n">> \o trim(seg.text) \o <<"\n">>

\* SRTFormatter::format_segment
format_segment(seg, index) ==
    Decimal(index) \o <<"\n">>
    \o format_srt_time(seg.start) \o <<" --> ">> \o format_srt_time(seg.end)
    \o <<"\n">> \o trim(seg.text) \o <<"\n">>

\* the loop of SRTFormatter::format_segments from block i on
RECURSIVE SrtBlocks(_, _)
SrtBlocks(fx, i) ==
    IF i > Len(fx) THEN <<>>
    ELSE format_segment(fx[i], i)
         \o (IF i < Len(fx) THEN <<"\n">> ELSE <<>>)
         \o SrtBlocks(fx, i + 1)

\* the loop of WebVTTFormatter::format_segments from cue i on
RECURSIVE VttCues(_, _)
VttCues(fx, i) ==
    IF i > Len(fx) THEN <<>>
    ELSE format_vtt_time(fx[i].start) \o <<" --> ">>
         \o format_vtt_time(fx[i].end) \o <<"\n">>
         \o fx[i].text \o <<"\n", "\n">>
         \o VttCues(fx, i + 1)

\* the loop of ASSFormatter::format_segments from event i on
RECURSIVE AssEvents(_, _)
AssEvents(fx, i) ==
    IF i > Len(fx) THEN <<>>
    ELSE <<"Dialogue: 0,">> \o format_ass_time(fx[i].start) \o <<",">>
         \o format_ass_time(fx[i].end) \o <<",">> \o <<"style_name">>
         \o <<",,0,0,0,,">> \o ass_escape_text(fx[i].text) \o <<"\n">>
         \o AssEvents(fx, i + 1)

\* what format_segments writes after the pre-pass returned fx
Serialise(f, fx) ==
    CASE f = "srt" -> SrtBlocks(fx, 1)
      [] f = "vtt" -> <<"WEBVTT", "\n", "\n">> \o VttCues(fx, 1)
      [] f = "ass" -> <<"[Script Info] .. [V4+ Styles] .. [Events]", "\n">>
                      \o AssEvents(fx, 1)

\* format_segments after the pre-pass: serialise and return the string
FormatEmit ==
    /\ pc = "emit"
    /\ content' = Serialise(fmt, fixed)
    /\ pc' = "done"
    /\ UNCHANGED <<entry, fmt, original_segments, translated_segments,
                   caller_min_duration, segments, min_duration, fixed,
                   last_end, pos>>
    /\ UNCHANGED outside_emitter

----------------------------------------------------------------------------
(* Specification of a plain format_segments call *)

\* no translate_text / translate_texts_batch call has returned yet
NoCall == [value |-> <<>>, attempts |-> 0, failed |-> FALSE]

\* no translate_segments call is part of an emitter call
TranslatorIdle ==
    /\ tpc = "idle"
    /\ translator = "simple"
    /\ batch_mode = FALSE
    /\ retry_count = 0
    /\ max_batch_chars = 0
    /\ max_batch_segments = 0
    /\ in_segments = <<>>
    /\ result_segments = <<>>
    /\ groups = <<>>
    /\ cur = 1
    /\ attempt = 0
    /\ translated_lists = <<>>
    /\ last_call = NoCall

\* the Qt application is not part of the run
GuiIdle ==
    /\ m_processing = FALSE
    /\ start_enabled = TRUE
    /\ dialog_open = FALSE
    /\ m_dirEdit = ""
    /\ s_model_dir = "models"
    /\ config_model_dir = ""
    /\ wpc = "none"
    /\ w_model_dir = "unread"
    /\ read_raced = FALSE
    /\ finished_queued = FALSE
    /\ started = 0
    /\ emitted = 0
    /\ handled = 0

\* no Processor::process call is in progress
ProcessIdle ==
    /\ ppc = "idle"
    /\ input_path = "ok"
    /\ config_ = [output_format |-> "srt", bilingual |-> FALSE,
                  translate_to |-> FALSE, merge_segments |-> FALSE,
                  min_segment_duration |-> 0, max_segment_duration |-> 0,
                  max_segment_chars |-> 0]
    /\ progress = <<>>
    /\ temp_dir = "none"
    /\ processed_segments = <<>>
    /\ translation_result = [has_value |-> FALSE, segments |-> <<>>]
    /\ save_calls = 0
    /\ save_ok = FALSE
    /\ p_result = [success |-> FALSE, error_message |-> <<>>]

\* no merge_segments call is part of an emitter call
MergeIdle ==
    /\ mpc = "idle"
    /\ m_segments = <<>>
    /\ m_max_duration = 0
    /\ m_max_chars = 0
    /\ merged = <<>>
    /\ current = [start |-> 0, end |-> 0, text |-> <<>>]
    /\ mi = 1

\* no stand-alone timestamp call is part of the run
TimeIdle ==
    /\ ts_pc = "idle"
    /\ ts_formatter = "srt"
    /\ seconds_ms = 0
    /\ timestamp = <<>>

\* no ModelManager function is part of the run
ModelsIdle ==
    /\ mm_pc = "idle"
    /\ mm_call = "none"
    /\ mm_size = "base"
    /\ mm_path = <<>>
    /\ files = <<>>
    /\ url_i = 1
    /\ dl_success = FALSE
    /\ mm_returned = FALSE
    /\ infos = <<>>
    /\ platform = "other"
    /\ files_before = <<>>
    /\ mm_calls = 0

\* no job runs Processor::process concurrently with another
JobsIdle ==
    /\ job_pc = <<>>
    /\ job_dir = <<>>
    /\ job_read = <<>>
    /\ tmp = <<>>

Init ==
    /\ JobsIdle
    /\ ModelsIdle
    /\ TimeIdle
    /\ GuiIdle
    /\ MergeIdle
    /\ ProcessIdle
    /\ content = <<>>
    /\ entry = "format_segments"
    /\ pc = "format_segments"
    /\ fmt \in Formats
    /\ original_segments = <<>>
    /\ translated_segments = <<>>
    /\ \/ /\ caller_min_duration \in MinDurations
          /\ segments \in SeqsUpTo(SegmentSet, MaxSegs)
       \/ /\ caller_min_duration = DefaultMinDurationSrt
          /\ segments = HelloWorld
    /\ min_duration = caller_min_duration
    /\ fixed = <<>>
    /\ last_end = 0
    /\ pos = 1
    /\ TranslatorIdle

Next ==
    \/ FixNormalize
    \/ FixSort
    \/ FixOverlapStep
    \/ FixReturn
    \/ FormatEmit

Spec == Init /\ [][Next]_vars

----------------------------------------------------------------------------
(* Specification of a create_bilingual_* call *)

\* sample segments of a bilingual call: an original and its translation
BiOriginalSet ==
    { Segment(st, st + d, t) :
        st \in {0, 1}, d \in {1, 2}, t \in { <<"a">>, <<"b", " ">> } }

BiTranslatedTexts == { <<"x">>, <<" ", "y">> }

\* a translated list: the i-th segment has the timing of the i-th original
\* where there is one, or that timing moved by one tick
BiTranslatedLists(orig) ==
    UNION { { [i \in 1 .. k |->
                 IF i <= Len(orig)
                 THEN Segment(orig[i].start + shift, orig[i].end + shift, tx[i])
                 ELSE Segment(shift, shift + 1, tx[i])] :
              tx \in [1 .. k -> BiTranslatedTexts], shift \in {0, 1} } :
            k \in 0 .. MaxSegs }

InitBilingual ==
    /\ JobsIdle
    /\ ModelsIdle
    /\ TimeIdle
    /\ GuiIdle
    /\ MergeIdle
    /\ ProcessIdle
    /\ content = <<>>
    /\ entry = "create_bilingual"
    /\ pc = "create_bilingual"
    /\ fmt \in Formats
    /\ original_segments \in SeqsUpTo(BiOriginalSet, MaxSegs)
    /\ translated_segments \in BiTranslatedLists(original_segments)
    /\ caller_min_duration \in {0, 1, 2}
    /\ min_duration = 0
    /\ segments = <<>>
    /\ fixed = <<>>
    /\ last_end = 0
    /\ pos = 1
    /\ TranslatorIdle

NextBilingual ==
    \/ CreateBilingual
    \/ FixNormalize
    \/ FixSort
    \/ FixOverlapStep
    \/ FixReturn
    \/ FormatEmit

SpecBilingual == InitBilingual /\ [][NextBilingual]_vars

----------------------------------------------------------------------------
(* Translators *)

\* longest segment list handed to a translator
MaxTrSegs == 3

Max(a, b) == IF a > b THEN a ELSE b

\* the j-th string of a provider's response
Tr(j) == <<"T", <<"1", "2", "3", "4", "5", "6">>[j]>>

\* Segment() = default: the elements result.segments.resize adds
DefaultSegment == Segment(0, 0, <<>>)

\* std::string trim of openai_translator.cpp
openai_trim(t) == trim(t)

\* one iteration of the loop of group_indices_by_limits, on index i whose
\* text has length len
GroupStep(st, i, len, max_chars, max_segments) ==
    LET close == /\ st.current # <<>>
                 /\ \/ (st.char_count + len) > max_chars
                    \/ Len(st.current) >= max_segments
        st1 == IF close
               THEN [groups |-> Append(st.groups, st.current),
                     current |-> <<>>, char_count |-> 0]
               ELSE st
    IN  [groups |-> st1.groups,
         current |-> Append(st1.current, i),
         char_count |-> st1.char_count + len]

RECURSIVE GroupLoop(_, _, _, _, _)
GroupLoop(segs, max_chars, max_segments, i, st) ==
    IF i > Len(segs)
    THEN st
    ELSE GroupLoop(segs, max_chars, max_segments, i + 1,
                   GroupStep(st, i, Len(segs[i].text), max_chars, max_segments))

\* group_indices_by_limits without the push of the last group after the loop
group_indices_drop_last(segs, max_chars, max_segments) ==
    GroupLoop(segs, max_chars, max_segments, 1,
              [groups |-> <<>>, current |-> <<>>, char_count |-> 0]).groups

\* group_indices_by_limits closing a group on the segment count only
group_indices_count_only(segs, max_chars, max_segments) ==
    [g \in 1 .. (Len(segs) + max_segments - 1) \div max_segments |->
        [k \in 1 .. (IF g * max_segments <= Len(segs)
                     THEN max_segments
                     ELSE Len(segs) - (g - 1) * max_segments) |->
            (g - 1) * max_segments + k]]

\* group_indices_by_limits (indices are 1-based here, 0-based in the code)
group_indices_by_limits(segs, max_chars, max_segments) ==
    LET st == GroupLoop(segs, max_chars, max_segments, 1,
                        [groups |-> <<>>, current |-> <<>>, char_count |-> 0])
    IN  IF st.current # <<>> THEN Append(st.groups, st.current) ELSE st.groups

\* the texts of a group, as translate_segments collects them
GroupTexts(segs, group) == [i \in 1 .. Len(group) |-> segs[group[i]].text]

\* map back keeping every original text of a group answered short
MapBackAllOrNothing(result, segs, group, translated_list) ==
    [idx \in 1 .. Len(result) |->
        IF \E i \in 1 .. Len(group) : group[i] = idx
        THEN LET i == CHOOSE i \in 1 .. Len(group) : group[i] = idx
             IN  [segs[idx] EXCEPT !.text =
                     IF Len(translated_list) >= Len(group)
                     THEN translated_list[i] ELSE segs[idx].text]
        ELSE result[idx]]

\* the "map back" loop of OpenAITranslator::translate_segments
MapBack(result, segs, group, translated_list) ==
    [idx \in 1 .. Len(result) |->
        IF \E i \in 1 .. Len(group) : group[i] = idx
        THEN LET i == CHOOSE i \in 1 .. Len(group) : group[i] = idx
             IN  [segs[idx] EXCEPT !.text =
                     IF i <= Len(translated_list)
                     THEN translated_list[i] ELSE segs[idx].text]
        ELSE result[idx]]

\* the loop body of GoogleTranslator::translate_segments leaving out a
\* segment whose translation failed
GooglePushSkipFailed(result, seg, translated) ==
    IF translated # <<>>
    THEN Append(result, [seg EXCEPT !.text = translated])
    ELSE result

\* the loop body of GoogleTranslator::translate_segments: translated is what
\* translate_text returned, empty on failure
GooglePush(result, seg, translated) ==
    IF translated # <<>>
    THEN Append(result, [seg EXCEPT !.text = translated])
    ELSE Append(result, seg)

\* the loop body of the per-segment branch of
\* OpenAITranslator::translate_segments
OpenAIPush(result, seg, translated) ==
    Append(result, [seg EXCEPT !.text = translated])

\* the number of the last attempt of a retry loop
\* (attempt <= std::max(0, opts_.retry_count))
\* a loop bound one larger than the code's
LastAttemptOneMore == Max(0, retry_count) + 1

\* the last value of the loop variable attempt: std::max(0, opts_.retry_count)
LastAttempt == Max(0, retry_count)

\* translate_segments is entered and dispatches on the translator
TranslateBegin ==
    /\ tpc = "translate_segments"
    /\ CASE translator = "simple" ->
              \* SimpleTranslator::translate_segments: the whole loop
              /\ result_segments' = [i \in 1 .. Len(in_segments) |->
                                       [in_segments[i] EXCEPT
                                          !.text = in_segments[i].text]]
              /\ tpc' = "t_done"
              /\ UNCHANGED groups
         [] translator = "google" ->
              /\ result_segments' = <<>>
              /\ tpc' = "google_text"
              /\ UNCHANGED groups
         [] translator = "openai" /\ ~batch_mode ->
              /\ result_segments' = <<>>
              /\ tpc' = "openai_text"
              /\ UNCHANGED groups
         [] translator = "openai" /\ batch_mode ->
              /\ groups' = group_indices_by_limits(in_segments, max_batch_chars,
                                                   Max(1, max_batch_segments))
              /\ result_segments' = [i \in 1 .. Len(in_segments) |-> DefaultSegment]
              /\ tpc' = "openai_batch"
    /\ cur' = 1
    /\ attempt' = 0
    /\ UNCHANGED <<translator, batch_mode, retry_count, max_batch_chars,
                   max_batch_segments, in_segments, translated_lists,
                   last_call>>
    /\ UNCHANGED outside_translator

\* what GoogleTranslator::translate_text returns after the loop: the parsed
\* string, or the empty string for an empty or unparsable body
GoogleReturn(outcome) == IF outcome = "ok" THEN Tr(1) ELSE <<>>

\* one attempt of GoogleTranslator::translate_text for segment cur:
\* "no_handle" is a WinHTTP handle that could not be opened (the function
\* returns before the loop), "fail" is a failed send or receive or an empty
\* body, "garbage" a body
\* parse_google_response_first_string finds no string in, "ok" a body it
\* reads a translation from
GoogleAttempt ==
    /\ tpc = "google_text"
    /\ cur <= Len(in_segments)
    /\ \E outcome \in {"no_handle", "fail", "garbage", "ok"} :
          /\ outcome = "no_handle" => attempt = 0
          /\ IF outcome = "fail" /\ attempt < LastAttempt
             THEN /\ attempt' = attempt + 1
                  /\ UNCHANGED <<cur, result_segments, last_call>>
             ELSE LET translated == GoogleReturn(outcome)
                  IN  /\ result_segments' =
                            GooglePush(result_segments, in_segments[cur],
                                       translated)
                      /\ last_call' =
                            [value |-> translated,
                             attempts |-> IF outcome = "no_handle"
                                          THEN 0 ELSE attempt + 1,
                             failed |-> outcome # "ok"]
                      /\ cur' = cur + 1
                      /\ attempt' = 0
    /\ UNCHANGED <<tpc, translator, batch_mode, retry_count, max_batch_chars,
                   max_batch_segments, in_segments, groups, translated_lists>>
    /\ UNCHANGED outside_translator

\* what OpenAITranslator::translate_text returns: the trimmed content of
\* the response, or the original text after the last failed attempt
OpenAIReturn(outcome) ==
    IF outcome = "ok"
    THEN openai_trim(<<" ">> \o Tr(1) \o <<"\n">>)
    ELSE in_segments[cur].text

\* one attempt of OpenAITranslator::translate_text for segment cur: "fail"
\* is no response or one that does not parse into choices[0].message.content,
\* "ok" a response with content (padded with white space)
OpenAIAttempt ==
    /\ tpc = "openai_text"
    /\ cur <= Len(in_segments)
    /\ \E outcome \in {"fail", "ok"} :
          IF outcome = "fail" /\ attempt < LastAttempt
          THEN /\ attempt' = attempt + 1
               /\ UNCHANGED <<cur, result_segments, last_call>>
          ELSE LET translated == OpenAIReturn(outcome)
               IN  /\ result_segments' =
                         OpenAIPush(result_segments, in_segments[cur],
                                    translated)
                   /\ last_call' = [value |-> translated,
                                    attempts |-> attempt + 1,
                                    failed |-> outcome # "ok"]
                   /\ cur' = cur + 1
                   /\ attempt' = 0
    /\ UNCHANGED <<tpc, translator, batch_mode, retry_count, max_batch_chars,
                   max_batch_segments, in_segments, groups, translated_lists>>
    /\ UNCHANGED outside_translator

\* one attempt of OpenAITranslator::translate_texts_batch for group cur and,
\* when the call returns, the map back of translate_segments.  returned is
\* the number of strings parsed from the response: -1 for no response or one
\* that does not parse, 0 for an empty "translations" array
OpenAIBatchAttempt ==
    /\ tpc = "openai_batch"
    /\ cur <= Len(groups)
    /\ LET group == groups[cur]
           texts == GroupTexts(in_segments, group)
       IN  \E returned \in -1 .. Len(group) + 1 :
              IF returned <= 0 /\ attempt < LastAttempt
              THEN /\ attempt' = attempt + 1
                   /\ UNCHANGED <<cur, result_segments, translated_lists,
                                  last_call>>
              ELSE LET translated_list ==
                           IF returned <= 0
                           THEN texts
                           ELSE [j \in 1 .. returned |-> Tr(j)]
                   IN  /\ result_segments' =
                             MapBack(result_segments, in_segments, group,
                                     translated_list)
                       /\ translated_lists' =
                             Append(translated_lists, translated_list)
                       /\ last_call' = [value |-> translated_list,
                                        attempts |-> attempt + 1,
                                        failed |-> returned <= 0]
                       /\ cur' = cur + 1
                       /\ attempt' = 0
    /\ UNCHANGED <<tpc, translator, batch_mode, retry_count, max_batch_chars,
                   max_batch_segments, in_segments, groups>>
    /\ UNCHANGED outside_translator

\* the loop over the segments or groups is over: translate_segments returns
TranslateReturn ==
    /\ \/ tpc \in {"google_text", "openai_text"} /\ cur > Len(in_segments)
       \/ tpc = "openai_batch" /\ cur > Len(groups)
    /\ tpc' = "t_done"
    /\ UNCHANGED <<translator, batch_mode, retry_count, max_batch_chars,
                   max_batch_segments, in_segments, result_segments, groups,
                   cur, attempt, translated_lists, last_call>>
    /\ UNCHANGED outside_translator

----------------------------------------------------------------------------
(* Specification of a translate_segments call *)

\* sample texts to translate, of 0, 1 and 2 characters
TrTexts == { <<>>, <<"a">>, <<"b", "c">> }

TrSegmentSet == { Segment(st, st + 1, t) : st \in {0, 1}, t \in TrTexts }

\* no emitter call is part of a translate_segments call
EmitterIdle ==
    /\ entry = "none"
    /\ pc = "idle"
    /\ fmt = "srt"
    /\ original_segments = <<>>
    /\ translated_segments = <<>>
    /\ caller_min_duration = 0
    /\ min_duration = 0
    /\ segments = <<>>
    /\ fixed = <<>>
    /\ last_end = 0
    /\ pos = 1
    /\ content = <<>>

InitTranslate ==
    /\ JobsIdle
    /\ ModelsIdle
    /\ TimeIdle
    /\ GuiIdle
    /\ EmitterIdle
    /\ MergeIdle
    /\ ProcessIdle
    /\ tpc = "translate_segments"
    /\ in_segments \in SeqsUpTo(TrSegmentSet, MaxTrSegs)
    /\ retry_count \in {-1, 1}
    /\ \/ /\ translator \in {"simple", "google", "openai"}
          /\ batch_mode = FALSE
          /\ max_batch_chars = 0
          /\ max_batch_segments = 0
       \/ /\ translator = "openai"
          /\ batch_mode = TRUE
          /\ max_batch_chars \in {1, 3}
          /\ max_batch_segments \in {0, 2}
    /\ result_segments = <<>>
    /\ groups = <<>>
    /\ cur = 1
    /\ attempt = 0
    /\ translated_lists = <<>>
    /\ last_call = NoCall

NextTranslate ==
    \/ TranslateBegin
    \/ GoogleAttempt
    \/ OpenAIAttempt
    \/ OpenAIBatchAttempt
    \/ TranslateReturn

SpecTranslate == InitTranslate /\ [][NextTranslate]_vars

----------------------------------------------------------------------------
(* merge_segments: greedy left-to-right merge of neighbouring segments *)

\* longest merge_segments input
MaxMergeSegs == 3

\* the literal 2.0 (seconds) of the gap test, in ticks
MaxGap == 4

\* current.text + " " + next_seg.text
CombinedText(cur_seg, next_seg) == cur_seg.text \o <<" ">> \o next_seg.text

\* the gap test measured between the two ends
CanMergeGapBetweenEnds(cur_seg, next_seg, max_d, max_c) ==
    /\ next_seg.end - cur_seg.start <= max_d
    /\ Len(CombinedText(cur_seg, next_seg)) <= max_c
    /\ next_seg.end - cur_seg.end <= MaxGap

\* the duration and length tests without the gap test
CanMergeNoGap(cur_seg, next_seg, max_d, max_c) ==
    /\ next_seg.end - cur_seg.start <= max_d
    /\ Len(CombinedText(cur_seg, next_seg)) <= max_c

\* the condition of the if statement of the loop body
CanMerge(cur_seg, next_seg, max_d, max_c) ==
    /\ next_seg.end - cur_seg.start <= max_d
    /\ Len(CombinedText(cur_seg, next_seg)) <= max_c
    /\ next_seg.start - cur_seg.end <= MaxGap

\* the then branch with the end of the accumulator left as it was
MergeIntoKeepEnd(cur_seg, next_seg) ==
    [cur_seg EXCEPT !.text = CombinedText(cur_seg, next_seg)]

\* the then branch: current.end = next_seg.end; current.text = combined_text
MergeInto(cur_seg, next_seg) ==
    [cur_seg EXCEPT !.end = next_seg.end,
                    !.text = CombinedText(cur_seg, next_seg)]

\* one iteration of the loop that forgets the accumulator it cannot extend
MergeOneDropEmitted(st, next_seg, max_d, max_c) ==
    IF CanMerge(st.current, next_seg, max_d, max_c)
    THEN [merged |-> st.merged, current |-> MergeInto(st.current, next_seg)]
    ELSE [merged |-> st.merged, current |-> next_seg]

\* one iteration of the loop on the locals st = [merged, current]
MergeOne(st, next_seg, max_d, max_c) ==
    IF CanMerge(st.current, next_seg, max_d, max_c)
    THEN [merged |-> st.merged, current |-> MergeInto(st.current, next_seg)]
    ELSE [merged |-> Append(st.merged, st.current), current |-> next_seg]

RECURSIVE MergeLoop(_, _, _, _, _)
MergeLoop(segs, max_d, max_c, i, st) ==
    IF i > Len(segs)
    THEN Append(st.merged, st.current)
    ELSE MergeLoop(segs, max_d, max_c, i + 1,
                   MergeOne(st, segs[i], max_d, max_c))

\* the whole function, as one value
merge_segments(segs, max_d, max_c) ==
    IF segs = <<>>
    THEN <<>>
    ELSE MergeLoop(segs, max_d, max_c, 2, [merged |-> <<>>, current |-> segs[1]])

\* entry of merge_segments up to the loop
MergeBegin ==
    /\ mpc = "merge_segments"
    /\ IF m_segments = <<>>
       THEN /\ mpc' = "m_done"
            /\ UNCHANGED <<current, mi>>
       ELSE /\ mpc' = "m_loop"
            /\ current' = m_segments[1]
            /\ mi' = 2
    /\ merged' = <<>>
    /\ UNCHANGED <<m_segments, m_max_duration, m_max_chars>>
    /\ UNCHANGED outside_merge

\* one iteration of the loop
MergeStep ==
    /\ mpc = "m_loop"
    /\ mi <= Len(m_segments)
    /\ LET st == MergeOne([merged |-> merged, current |-> current],
                          m_segments[mi], m_max_duration, m_max_chars)
       IN  /\ merged' = st.merged
           /\ current' = st.current
    /\ mi' = mi + 1
    /\ UNCHANGED <<mpc, m_segments, m_max_duration, m_max_chars>>
    /\ UNCHANGED outside_merge

\* merged.push_back(current); return merged
MergeReturn ==
    /\ mpc = "m_loop"
    /\ mi > Len(m_segments)
    /\ merged' = Append(merged, current)
    /\ mpc' = "m_done"
    /\ UNCHANGED <<m_segments, m_max_duration, m_max_chars, current, mi>>
    /\ UNCHANGED outside_merge

----------------------------------------------------------------------------
(* Specification of a merge_segments call *)

\* sample segments: gaps of up to 3 s between neighbours, in any order
MergeSegmentSet ==
    { Segment(st, st + d, t) : st \in {0, 6}, d \in {1, 2},
                               t \in { <<"a">>, <<"b", "c">> } }

\* sample max_duration values, in ticks (0.5 s, 1 s, 4 s, 50 s)
MaxDurations == {1, 2, 8, 100}

\* sample max_chars values
MaxCharsSet == {3, 4, 100}

InitMerge ==
    /\ JobsIdle
    /\ ModelsIdle
    /\ TimeIdle
    /\ GuiIdle
    /\ EmitterIdle
    /\ TranslatorIdle
    /\ ProcessIdle
    /\ mpc = "merge_segments"
    /\ m_segments \in SeqsUpTo(MergeSegmentSet, MaxMergeSegs)
    /\ m_max_duration \in MaxDurations
    /\ m_max_chars \in MaxCharsSet
    /\ merged = <<>>
    /\ current = DefaultSegment
    /\ mi = 1

NextMerge ==
    \/ MergeBegin
    \/ MergeStep
    \/ MergeReturn

SpecMerge == InitMerge /\ [][NextMerge]_vars

----------------------------------------------------------------------------
(* Processor::process: validation, audio extraction, transcription, merge, *)
(* translation, formatting and saving.  Progress values are in percent.    *)

\* longest transcription
MaxProcSegs == 2

\* sample output of the transcriber
ProcSegmentSet == { Segment(0, 2, <<"a">>), Segment(2, 3, <<"b">>) }

\* the emitter's return position: format_segments has returned its string
EmitterReturned == pc = "done"

\* output_path.string()
OutputPath == "out.sub"

\* std::transform(..., ::tolower) on the sample format names
ToLower(f) == IF f = "SRT" THEN "srt" ELSE f

validate_config(c) ==
    /\ c.max_segment_duration > 0
    /\ c.min_segment_duration >= 0
    /\ c.max_segment_chars # 0
    /\ ToLower(c.output_format) \in {"srt", "vtt", "ass"}

\* cleanup_temp_files: the directory is removed if it exists
cleanup_temp_files(d) == IF d = "present" THEN "removed" ELSE d

\* the return on a failed save without the output path in the message
SaveFailedResultNoPath == [success |-> FALSE, error_message |-> <<"save failed">>]

\* result.error_message = "... : " + output_path.string(); return result
SaveFailedResult ==
    [success |-> FALSE, error_message |-> <<"save failed", OutputPath>>]

\* the translated lists a translator can return for segs: one segment per
\* input segment, its text translated or, after a failure, left as it was
TranslationOutcomes(segs) ==
    { [i \in 1 .. Len(segs) |->
          IF keep[i] THEN segs[i] ELSE [segs[i] EXCEPT !.text = <<"x">>]] :
        keep \in [1 .. Len(segs) -> BOOLEAN] }

\* lines 23-45: the three checks, progress 0.0, create_temp_directory,
\* progress 0.1
ProcessBegin ==
    /\ ppc = "process"
    /\ IF input_path = "missing"
       THEN /\ p_result' = [success |-> FALSE,
                            error_message |-> <<"input missing", "in">>]
            /\ ppc' = "returned"
            /\ UNCHANGED <<progress, temp_dir>>
       ELSE IF input_path = "unsupported"
       THEN /\ p_result' = [success |-> FALSE,
                            error_message |-> <<"unsupported format", ".ext">>]
            /\ ppc' = "returned"
            /\ UNCHANGED <<progress, temp_dir>>
       ELSE IF ~validate_config(config_)
       THEN /\ p_result' = [success |-> FALSE,
                            error_message |-> <<"invalid config">>]
            /\ ppc' = "returned"
            /\ UNCHANGED <<progress, temp_dir>>
       ELSE /\ progress' = progress \o <<0, 10>>
            /\ temp_dir' = "present"
            /\ ppc' = "extract_audio"
            /\ UNCHANGED p_result
    /\ UNCHANGED <<input_path, config_, processed_segments,
                   translation_result, save_calls, save_ok>>
    /\ UNCHANGED <<emitter_vars, outside_process>>

\* lines 47-58: extract_audio_to_wav, then progress 0.3 and 0.4
ProcessExtractAudio ==
    /\ ppc = "extract_audio"
    /\ \E ok \in BOOLEAN :
          IF ~ok
          THEN /\ temp_dir' = cleanup_temp_files(temp_dir)
               /\ p_result' = [success |-> FALSE,
                               error_message |-> <<"audio extraction failed">>]
               /\ ppc' = "returned"
               /\ UNCHANGED progress
          ELSE /\ progress' = progress \o <<30, 40>>
               /\ ppc' = "initialize_transcriber"
               /\ UNCHANGED <<temp_dir, p_result>>
    /\ UNCHANGED <<input_path, config_, processed_segments,
                   translation_result, save_calls, save_ok>>
    /\ UNCHANGED <<emitter_vars, outside_process>>

\* lines 60-66: initialize_transcriber, then progress 0.5
ProcessInitTranscriber ==
    /\ ppc = "initialize_transcriber"
    /\ \E ok \in BOOLEAN :
          IF ~ok
          THEN /\ temp_dir' = cleanup_temp_files(temp_dir)
               /\ p_result' = [success |-> FALSE,
                               error_message |-> <<"transcriber init failed">>]
               /\ ppc' = "returned"
               /\ UNCHANGED progress
          ELSE /\ progress' = progress \o <<50>>
               /\ ppc' = "transcribe"
               /\ UNCHANGED <<temp_dir, p_result>>
    /\ UNCHANGED <<input_path, config_, processed_segments,
                   translation_result, save_calls, save_ok>>
    /\ UNCHANGED <<emitter_vars, outside_process>>

\* the catch block of process: the message is set, nothing else is done
ProcessCatch ==
    /\ p_result' = [success |-> FALSE,
                    error_message |-> <<"exception", "what">>]
    /\ ppc' = "returned"

\* lines 68-85 and 93-94: transcribe, progress 0.8 and 0.85, the optional
\* merge, then progress 0.9 (translation) or 0.95 (no translation)
ProcessTranscribe ==
    /\ ppc = "transcribe"
    /\ \/ /\ ProcessCatch
          /\ UNCHANGED <<progress, processed_segments>>
       \/ \E transcription \in SeqsUpTo(ProcSegmentSet, MaxProcSegs) :
             /\ processed_segments' =
                   IF config_.merge_segments
                   THEN merge_segments(transcription,
                                       config_.max_segment_duration,
                                       config_.max_segment_chars)
                   ELSE transcription
             /\ IF config_.translate_to
                THEN /\ progress' = progress \o <<80, 85, 90>>
                     /\ ppc' = "translate"
                ELSE /\ progress' = progress \o <<80, 85, 95>>
                     /\ ppc' = "format"
             /\ UNCHANGED p_result
    /\ UNCHANGED <<input_path, config_, temp_dir, translation_result,
                   save_calls, save_ok>>
    /\ UNCHANGED <<emitter_vars, outside_process>>

\* lines 86-94: create_translator, translate_segments, then progress 0.95
ProcessTranslate ==
    /\ ppc = "translate"
    /\ \/ /\ ProcessCatch
          /\ UNCHANGED <<progress, translation_result>>
       \/ \E translated \in TranslationOutcomes(processed_segments) :
             /\ translation_result' =
                   [has_value |-> TRUE, segments |-> translated]
             /\ progress' = progress \o <<95>>
             /\ ppc' = "format"
             /\ UNCHANGED p_result
    /\ UNCHANGED <<input_path, config_, temp_dir, processed_segments,
                   save_calls, save_ok>>
    /\ UNCHANGED <<emitter_vars, outside_process>>

\* lines 97-143 without the save: the call of the emitter for the format
\* and the mode
ProcessFormat ==
    /\ ppc = "format"
    /\ fmt' = ToLower(config_.output_format)
    /\ caller_min_duration' = config_.min_segment_duration
    /\ IF translation_result.has_value /\ config_.bilingual
       THEN /\ entry' = "create_bilingual"
            /\ pc' = "create_bilingual"
            /\ original_segments' = processed_segments
            /\ translated_segments' = translation_result.segments
            /\ UNCHANGED <<segments, min_duration>>
       ELSE /\ entry' = "format_segments"
            /\ pc' = "format_segments"
            /\ segments' = IF translation_result.has_value
                           THEN translation_result.segments
                           ELSE processed_segments
            /\ min_duration' = config_.min_segment_duration
            /\ UNCHANGED <<original_segments, translated_segments>>
    /\ ppc' = "save"
    /\ UNCHANGED <<fixed, last_end, pos, content>>
    /\ UNCHANGED <<input_path, config_, progress, temp_dir,
                   processed_segments, translation_result, save_calls,
                   save_ok, p_result>>
    /\ UNCHANGED outside_process

\* lines 113-118, 131-136, 149-154 and 157-170: save_*, and on success
\* progress 1.0, the cleanup and the result
ProcessSave ==
    /\ ppc = "save"
    /\ EmitterReturned
    /\ save_calls' = save_calls + 1
    /\ temp_dir' = cleanup_temp_files(temp_dir)
    /\ \E ok \in BOOLEAN :
          /\ save_ok' = ok
          /\ IF ~ok
             THEN /\ p_result' = SaveFailedResult
                  /\ UNCHANGED progress
             ELSE /\ progress' = progress \o <<100>>
                  /\ p_result' = [success |-> TRUE, error_message |-> <<>>]
    /\ ppc' = "returned"
    /\ UNCHANGED <<input_path, config_, processed_segments,
                   translation_result>>
    /\ UNCHANGED <<emitter_vars, outside_process>>

----------------------------------------------------------------------------
(* Specification of a Processor::process call *)

\* max_segment_duration = 30.0 (in ticks) and max_segment_chars = 500
DefaultMaxSegmentDuration == 60

DefaultMaxSegmentChars == 500

\* sample configurations: every format and mode, an unknown format, and
\* min_segment_duration invalid (-0.5 s), equal to the emitters' default
\* (0.5 s) and larger (2 s)
ConfigSet ==
    [output_format : {"srt", "vtt", "ass", "SRT", "txt"},
     bilingual : BOOLEAN,
     translate_to : BOOLEAN,
     merge_segments : BOOLEAN,
     min_segment_duration : {-1, 1, 4},
     max_segment_duration : {DefaultMaxSegmentDuration},
     max_segment_chars : {DefaultMaxSegmentChars}]

InitProcess ==
    /\ JobsIdle
    /\ ModelsIdle
    /\ TimeIdle
    /\ GuiIdle
    /\ EmitterIdle
    /\ TranslatorIdle
    /\ MergeIdle
    /\ ppc = "process"
    /\ input_path \in {"missing", "unsupported", "ok"}
    /\ config_ \in ConfigSet
    /\ progress = <<>>
    /\ temp_dir = "none"
    /\ processed_segments = <<>>
    /\ translation_result = [has_value |-> FALSE, segments |-> <<>>]
    /\ save_calls = 0
    /\ save_ok = FALSE
    /\ p_result = [success |-> FALSE, error_message |-> <<>>]

NextProcess ==
    \/ ProcessBegin
    \/ ProcessExtractAudio
    \/ ProcessInitTranscriber
    \/ ProcessTranscribe
    \/ ProcessTranslate
    \/ ProcessFormat
    \/ CreateBilingual
    \/ FixNormalize
    \/ FixSort
    \/ FixOverlapStep
    \/ FixReturn
    \/ FormatEmit
    \/ ProcessSave

SpecProcess == InitProcess /\ [][NextProcess]_vars

----------------------------------------------------------------------------
(* Qt GUI: the main window, the model manager dialog and the worker thread. *)
(* Each slot of the GUI thread is one action; the worker's read of          *)
(* ModelManager::s_model_dir (a std::filesystem::path, copied without a     *)
(* lock) takes two steps, and a write between the two is a data race.       *)

\* sample model directories
Dirs == {"models", "d1"}

\* ConfigManager::apply_default_config / apply_model_dir_from_config: the
\* model_dir of the configuration file, if it has one, is set
DirAfterConfig(dir, stored) == IF stored # "" THEN stored ELSE dir

\* the read of the worker is in progress and dir_after differs from, or
\* overwrites, what it reads
Races(written) == wpc = "reading" /\ written

\* most workers started in one run
MaxRuns == 2

\* onStart without the m_processing test and with the start button left
\* enabled while a worker runs
onStartWhileProcessing ==
    /\ started < MaxRuns
    /\ ~dialog_open
    /\ s_model_dir' = DirAfterConfig(s_model_dir, config_model_dir)
    /\ start_enabled' = FALSE
    /\ m_processing' = TRUE
    /\ wpc' = "started"
    /\ w_model_dir' = "unread"
    /\ read_raced' = FALSE
    /\ started' = started + 1
    /\ UNCHANGED <<dialog_open, m_dirEdit, config_model_dir, finished_queued>>
    /\ UNCHANGED <<emitted, handled>>
    /\ UNCHANGED outside_gui

\* MainWindow::onStart (the start button is clicked)
onStart ==
    /\ started < MaxRuns
    /\ start_enabled
    /\ ~dialog_open
    /\ \E input_empty \in BOOLEAN :
          IF m_processing \/ input_empty
          THEN UNCHANGED <<m_processing, start_enabled, s_model_dir, wpc,
                           w_model_dir, read_raced, started>>
          ELSE /\ s_model_dir' = DirAfterConfig(s_model_dir, config_model_dir)
               /\ start_enabled' = FALSE
               /\ m_processing' = TRUE
               /\ wpc' = "started"
               /\ w_model_dir' = "unread"
               /\ read_raced' = FALSE
               /\ started' = started + 1
    /\ UNCHANGED <<dialog_open, m_dirEdit, config_model_dir, finished_queued>>
    /\ UNCHANGED <<emitted, handled>>
    /\ UNCHANGED outside_gui

\* Worker::run ends before a model is loaded (audio only, or a failure of
\* process before initialize_transcriber) and emits finished
WorkerFinishEarly ==
    /\ wpc = "started"
    /\ wpc' = "finished"
    /\ finished_queued' = TRUE
    /\ UNCHANGED <<m_processing, start_enabled, dialog_open, m_dirEdit,
                   s_model_dir, config_model_dir, w_model_dir, read_raced>>
    /\ emitted' = emitted + 1
    /\ UNCHANGED <<started, handled>>
    /\ UNCHANGED outside_gui

\* Transcriber::load_model: get_model_file_path starts to copy s_model_dir
WorkerReadModelDirBegin ==
    /\ wpc = "started"
    /\ wpc' = "reading"
    /\ read_raced' = FALSE
    /\ UNCHANGED <<m_processing, start_enabled, dialog_open, m_dirEdit,
                   s_model_dir, config_model_dir, w_model_dir,
                   finished_queued>>
    /\ UNCHANGED <<started, emitted, handled>>
    /\ UNCHANGED outside_gui

\* the copy is complete: the value read, or anything after a race
WorkerReadModelDirEnd ==
    /\ wpc = "reading"
    /\ w_model_dir' \in IF read_raced
                        THEN Dirs \cup {"torn"}
                        ELSE {s_model_dir}
    /\ wpc' = "running"
    /\ UNCHANGED <<m_processing, start_enabled, dialog_open, m_dirEdit,
                   s_model_dir, config_model_dir, read_raced,
                   finished_queued>>
    /\ UNCHANGED <<started, emitted, handled>>
    /\ UNCHANGED outside_gui

\* Worker::run emits finished after Processor::process returned
WorkerFinish ==
    /\ wpc = "running"
    /\ wpc' = "finished"
    /\ finished_queued' = TRUE
    /\ UNCHANGED <<m_processing, start_enabled, dialog_open, m_dirEdit,
                   s_model_dir, config_model_dir, w_model_dir, read_raced>>
    /\ emitted' = emitted + 1
    /\ UNCHANGED <<started, handled>>
    /\ UNCHANGED outside_gui

\* MainWindow::onFinished (queued connection, runs in the GUI thread)
onFinished ==
    /\ finished_queued
    /\ finished_queued' = FALSE
    /\ m_processing' = FALSE
    /\ start_enabled' = TRUE
    /\ wpc' = "none"
    /\ UNCHANGED <<dialog_open, m_dirEdit, s_model_dir, config_model_dir,
                   w_model_dir, read_raced>>
    /\ handled' = handled + 1
    /\ UNCHANGED <<started, emitted>>
    /\ UNCHANGED outside_gui

\* MainWindow::onManageModels with the constructor of ModelManagerDialog:
\* m_modelManageBtn is not among the controls setControlsEnabled disables
onManageModels ==
    /\ ~dialog_open
    /\ dialog_open' = TRUE
    /\ s_model_dir' = DirAfterConfig(s_model_dir, config_model_dir)
    /\ m_dirEdit' = s_model_dir'
    /\ read_raced' = (read_raced \/ Races(config_model_dir # ""))
    /\ UNCHANGED <<m_processing, start_enabled, config_model_dir, wpc,
                   w_model_dir, finished_queued>>
    /\ UNCHANGED <<started, emitted, handled>>
    /\ UNCHANGED outside_gui

\* the user edits m_dirEdit (typing or onBrowseDir)
onBrowseDir ==
    /\ dialog_open
    /\ \E dir \in Dirs \cup {""} : m_dirEdit' = dir
    /\ UNCHANGED <<m_processing, start_enabled, dialog_open, s_model_dir,
                   config_model_dir, wpc, w_model_dir, read_raced,
                   finished_queued>>
    /\ UNCHANGED <<started, emitted, handled>>
    /\ UNCHANGED outside_gui

\* ModelManagerDialog::onSaveDir
onSaveDir ==
    /\ dialog_open
    /\ IF m_dirEdit = ""
       THEN UNCHANGED <<s_model_dir, config_model_dir, read_raced>>
       ELSE /\ s_model_dir' = m_dirEdit
            /\ read_raced' = (read_raced \/ Races(TRUE))
            /\ \E saved \in BOOLEAN :
                  config_model_dir' = IF saved THEN m_dirEdit
                                      ELSE config_model_dir
    /\ UNCHANGED <<m_processing, start_enabled, dialog_open, m_dirEdit, wpc,
                   w_model_dir, finished_queued>>
    /\ UNCHANGED <<started, emitted, handled>>
    /\ UNCHANGED outside_gui

\* the dialog is closed: dlg.exec() returns
DialogClose ==
    /\ dialog_open
    /\ dialog_open' = FALSE
    /\ UNCHANGED <<m_processing, start_enabled, m_dirEdit, s_model_dir,
                   config_model_dir, wpc, w_model_dir, read_raced,
                   finished_queued>>
    /\ UNCHANGED <<started, emitted, handled>>
    /\ UNCHANGED outside_gui

----------------------------------------------------------------------------
(* Specification of the Qt application *)

InitGui ==
    /\ JobsIdle
    /\ ModelsIdle
    /\ TimeIdle
    /\ EmitterIdle
    /\ TranslatorIdle
    /\ MergeIdle
    /\ ProcessIdle
    /\ m_processing = FALSE
    /\ start_enabled = TRUE
    /\ dialog_open = FALSE
    /\ m_dirEdit = ""
    /\ s_model_dir = "models"
    /\ config_model_dir \in Dirs \cup {""}
    /\ wpc = "none"
    /\ w_model_dir = "unread"
    /\ read_raced = FALSE
    /\ finished_queued = FALSE
    /\ started = 0
    /\ emitted = 0
    /\ handled = 0

NextGui ==
    \/ onStart
    \/ WorkerFinishEarly
    \/ WorkerReadModelDirBegin
    \/ WorkerReadModelDirEnd
    \/ WorkerFinish
    \/ onFinished
    \/ onManageModels
    \/ onBrowseDir
    \/ onSaveDir
    \/ DialogClose

SpecGui == InitGui /\ [][NextGui]_vars

\* Worker::run: the worker thread is started by thread->start() and runs
\* until run returns
WorkerRun ==
    \/ WorkerFinishEarly
    \/ WorkerReadModelDirBegin
    \/ WorkerReadModelDirEnd
    \/ WorkerFinish

\* the worker thread is scheduled, and the event loop of the GUI thread
\* (the nested loops of the modal dialogs included) delivers the queued
\* finished signal
SpecGuiFair ==
    /\ InitGui
    /\ [][NextGui]_vars
    /\ WF_vars(WorkerRun)
    /\ WF_vars(onFinished)

----------------------------------------------------------------------------
(* Timestamps of millisecond times.  format_srt_time and format_vtt_time   *)
(* compute on a double; a time of k milliseconds reaches them as the       *)
(* double nearest to k / 1000.  A non-negative double is modelled exactly, *)
(* as a binary numeral: a sequence of limbs of LimbBits bits each, most    *)
(* significant first, IntLimbs of them before the binary point and         *)
(* FracLimbs after it.  Every double between 0.001 and 2^22, and every     *)
(* quotient of one by 60 or 3600 together with its rounding bit, fits.     *)

\* bits of the significand of a double (IEEE-754 binary64)
MantissaBits == 53

\* bits of one limb of a numeral
LimbBits == 11

\* limbs before the binary point
IntLimbs == 2

\* limbs after the binary point
FracLimbs == 7

\* largest time of the dense sample, in milliseconds
MaxMillis == 1100

Base == 2 ^ LimbBits

NumLimbs == IntLimbs + FracLimbs

Width == NumLimbs * LimbBits

\* the double 0.0
Zero == [j \in 1 .. NumLimbs |-> 0]

\* the numeral of a natural number n < Base^IntLimbs (an int converted to
\* double)
FromInt(n) ==
    [j \in 1 .. NumLimbs |->
        IF j <= IntLimbs THEN (n \div Base ^ (IntLimbs - j)) % Base ELSE 0]

RECURSIVE IntValue(_, _, _)
IntValue(b, j, acc) ==
    IF j > IntLimbs THEN acc ELSE IntValue(b, j + 1, Base * acc + b[j])

\* static_cast<int> of a non-negative double: the integer part
ToInt(b) == IntValue(b, 1, 0)

\* long division of the numeral b by the small integer d from limb j on:
\* the quotient cut off after the last limb, and whether anything was cut
\* off
RECURSIVE DivLoop(_, _, _, _, _)
DivLoop(b, d, j, rem, q) ==
    IF j > NumLimbs THEN [limbs |-> q, inexact |-> rem # 0]
    ELSE LET c == Base * rem + b[j]
         IN  DivLoop(b, d, j + 1, c % d, Append(q, c \div d))

\* the product of the numeral b and the small integer k, from limb j down
RECURSIVE MulLoop(_, _, _, _, _)
MulLoop(b, k, j, carry, q) ==
    IF j = 0 THEN q
    ELSE LET v == b[j] * k + carry
         IN  MulLoop(b, k, j - 1, v \div Base, <<v % Base>> \o q)

\* the limb that holds bit i (bits are counted from 1, most significant
\* first) and the weight of bit i within that limb
LimbOf(i) == (i - 1) \div LimbBits + 1

WeightOf(i) == 2 ^ (LimbBits - 1 - ((i - 1) % LimbBits))

Bit(b, i) == (b[LimbOf(i)] \div WeightOf(i)) % 2

\* position of the leading one bit, 0 if there is none
Leading(b) ==
    IF \E i \in 1 .. Width : Bit(b, i) = 1
    THEN CHOOSE i \in 1 .. Width :
             Bit(b, i) = 1 /\ \A k \in 1 .. (i - 1) : Bit(b, k) = 0
    ELSE 0

\* add amount to limb j, carrying into the limbs before it
RECURSIVE AddAt(_, _, _)
AddAt(b, j, amount) ==
    LET v == b[j] + amount
    IN  IF v < Base THEN [b EXCEPT ![j] = v]
        ELSE AddAt([b EXCEPT ![j] = v - Base], j - 1, 1)

\* the rounding every double operation ends with: round to nearest, ties to
\* even, on the MantissaBits bits from the leading one
RoundNearestEven(b, inexact) ==
    LET p    == Leading(b)
        last == p + MantissaBits - 1
    IN  IF p = 0 \/ last >= Width THEN b
        ELSE LET round  == Bit(b, last + 1)
                 sticky == inexact
                           \/ \E k \in (last + 2) .. Width : Bit(b, k) = 1
                 kept   == [j \in 1 .. NumLimbs |->
                              IF j < LimbOf(last) THEN b[j]
                              ELSE IF j > LimbOf(last) THEN 0
                              ELSE b[j] - (b[j] % WeightOf(last))]
             IN  IF round = 1 /\ (sticky \/ Bit(b, last) = 1)
                 THEN AddAt(kept, LimbOf(last), WeightOf(last))
                 ELSE kept

\* the double nearest to ms / 1000: a time of ms milliseconds as the caller
\* holds it
NearestDouble(ms) ==
    LET q == DivLoop(FromInt(ms), 1000, 1, 0, <<>>)
    IN  RoundNearestEven(q.limbs, q.inexact)

\* x / d on doubles, d an int literal
DoubleDiv(x, d) ==
    LET q == DivLoop(x, d, 1, 0, <<>>)
    IN  RoundNearestEven(q.limbs, q.inexact)

\* x * k on doubles, k an int literal
DoubleMul(x, k) == RoundNearestEven(MulLoop(x, k, NumLimbs, 0, <<>>), FALSE)

\* x - n on doubles, n an int not above the integer part of x
DoubleSubInt(x, n) ==
    LET d == FromInt(ToInt(x) - n)
    IN  RoundNearestEven([j \in 1 .. NumLimbs |->
                             IF j <= IntLimbs THEN d[j] ELSE x[j]], FALSE)

\* the locals hours, minutes, secs and milliseconds of format_srt_time and
\* format_vtt_time for a time of ms milliseconds
DoubleTimeFields(ms) ==
    LET seconds      == IF ms < 0 THEN Zero ELSE NearestDouble(ms)
        hours        == ToInt(DoubleDiv(seconds, 3600))
        minutes      == ToInt(DoubleDiv(DoubleSubInt(seconds, hours * 3600), 60))
        rem          == DoubleSubInt(DoubleSubInt(seconds, hours * 3600),
                                     minutes * 60)
        secs         == ToInt(rem)
        milliseconds == ToInt(DoubleMul(DoubleSubInt(rem, secs), 1000))
    IN  [hours |-> hours, minutes |-> minutes, secs |-> secs,
         milliseconds |-> milliseconds]

\* format_srt_time on a time of ms milliseconds: HH:MM:SS,mmm
format_srt_time_ms(ms) ==
    LET f == DoubleTimeFields(ms)
    IN  Pad(f.hours, 2) \o <<":">> \o Pad(f.minutes, 2) \o <<":">>
        \o Pad(f.secs, 2) \o <<",">> \o Pad(f.milliseconds, 3)

\* WebVTTFormatter::format_vtt_time on a time of ms milliseconds: HH:MM:SS.mmm
format_vtt_time_ms(ms) ==
    LET f == DoubleTimeFields(ms)
    IN  Pad(f.hours, 2) \o <<":">> \o Pad(f.minutes, 2) \o <<":">>
        \o Pad(f.secs, 2) \o <<".">> \o Pad(f.milliseconds, 3)

\* a call of format_srt_time
FormatSrtTime ==
    /\ ts_pc = "call"
    /\ ts_formatter = "srt"
    /\ timestamp' = format_srt_time_ms(seconds_ms)
    /\ ts_pc' = "returned"
    /\ UNCHANGED <<ts_formatter, seconds_ms>>
    /\ UNCHANGED outside_time

\* a call of WebVTTFormatter::format_vtt_time
FormatVttTime ==
    /\ ts_pc = "call"
    /\ ts_formatter = "vtt"
    /\ timestamp' = format_vtt_time_ms(seconds_ms)
    /\ ts_pc' = "returned"
    /\ UNCHANGED <<ts_formatter, seconds_ms>>
    /\ UNCHANGED outside_time

\* sample times in milliseconds: two negative ones, every time up to
\* MaxMillis, and times around a full minute and a full hour
MillisSet ==
    (-2 .. MaxMillis)
    \cup {59999, 60000, 60001, 3599999, 3600000, 3600001, 3661001}

InitTime ==
    /\ JobsIdle
    /\ ModelsIdle
    /\ GuiIdle
    /\ EmitterIdle
    /\ TranslatorIdle
    /\ MergeIdle
    /\ ProcessIdle
    /\ ts_pc = "call"
    /\ ts_formatter \in {"srt", "vtt"}
    /\ seconds_ms \in MillisSet
    /\ timestamp = <<>>

NextTime ==
    \/ FormatSrtTime
    \/ FormatVttTime

SpecTime == InitTime /\ [][NextTime]_vars

----------------------------------------------------------------------------
(* ModelManager: the model files of the model directory.  A file name is   *)
(* the tuple of the three parts build_model_filename joins; the content of *)
(* a file is "absent", "empty" (zero bytes), "partial" (a download that    *)
(* stopped midway) or "complete".                                          *)

\* most ModelManager calls in one run
MaxCalls == 2

\* the array models of list_models
ListedModels ==
    <<"tiny", "tiny.en", "base", "base.en", "small", "small.en",
      "small.en-tdrz", "medium", "medium.en", "large-v1", "large-v2",
      "large-v3", "large-v3-turbo", "large-v2-q5_0", "large-v3-q5_0",
      "large-v3-turbo-q5_0">>

\* sample size arguments: every listed identifier, the alias large and an
\* identifier in capitals
SizeArgs ==
    { ListedModels[k] : k \in 1 .. Len(ListedModels) } \cup {"large", "Base"}

\* std::transform(..., ::tolower) on the sample size arguments
ToLowerSize(s) == IF s = "Base" THEN "base" ELSE s

\* normalize_size
normalize_size(size) ==
    LET s == ToLowerSize(size)
    IN  IF s \in {"tiny", "base", "small", "medium"} THEN s
        ELSE IF s = "large" THEN "large-v3"
        ELSE IF s \in {"tiny.en", "base.en", "small.en", "medium.en",
                       "large-v1", "large-v2", "large-v3", "large-v3-turbo"}
        THEN s
        ELSE "base"

\* build_model_filename: "ggml-" + norm + ".bin"
build_model_filename(size) == <<"ggml-", normalize_size(size), ".bin">>

\* get_model_file_path, relative to the model directory
get_model_file_path(size) == build_model_filename(size)

\* the files of the model directory a call can name
FileNames == { get_model_file_path(s) : s \in SizeArgs }

\* std::filesystem::exists(path) && std::filesystem::file_size(path) > 0
ExistsNonEmpty(fs, p) == fs[p] \in {"partial", "complete"}

\* is_downloaded on the directory content fs
is_downloaded(fs, size) == ExistsNonEmpty(fs, get_model_file_path(size))

\* list_models: info.is_downloaded of each entry
list_models(fs) ==
    [k \in 1 .. Len(ListedModels) |->
        fs[get_model_file_path(ListedModels[k])] # "absent"]

\* a ModelManager function is called
ModelCall ==
    /\ mm_pc \in {"ready", "returned"}
    /\ mm_calls < MaxCalls
    /\ mm_calls' = mm_calls + 1
    /\ \E c \in {"is_downloaded", "list_models", "download_model",
                 "delete_model"} :
          /\ mm_call' = c
          /\ mm_pc' = c
    /\ \E s \in SizeArgs : mm_size' = s
    /\ files_before' = files
    /\ UNCHANGED <<mm_path, files, url_i, dl_success, mm_returned, infos,
                   platform>>
    /\ UNCHANGED outside_models

\* is_downloaded
IsDownloaded ==
    /\ mm_pc = "is_downloaded"
    /\ mm_path' = get_model_file_path(mm_size)
    /\ mm_returned' = is_downloaded(files, mm_size)
    /\ mm_pc' = "returned"
    /\ UNCHANGED <<mm_call, mm_size, files, url_i, dl_success, infos,
                   platform, files_before, mm_calls>>
    /\ UNCHANGED outside_models

\* list_models
ListModels ==
    /\ mm_pc = "list_models"
    /\ infos' = list_models(files)
    /\ mm_pc' = "returned"
    /\ UNCHANGED <<mm_call, mm_size, mm_path, files, url_i, dl_success,
                   mm_returned, platform, files_before, mm_calls>>
    /\ UNCHANGED outside_models

\* delete_model: remove the file if it exists
DeleteModel ==
    /\ mm_pc = "delete_model"
    /\ LET path == get_model_file_path(mm_size)
       IN  /\ mm_path' = path
           /\ \/ /\ files[path] # "absent"
                 /\ files' = [files EXCEPT ![path] = "absent"]
                 /\ mm_returned' = TRUE
              \/ /\ files[path] # "absent"
                 /\ UNCHANGED files
                 /\ mm_returned' = FALSE
              \/ /\ files[path] = "absent"
                 /\ UNCHANGED files
                 /\ mm_returned' = FALSE
    /\ mm_pc' = "returned"
    /\ UNCHANGED <<mm_call, mm_size, url_i, dl_success, infos, platform,
                   files_before, mm_calls>>
    /\ UNCHANGED outside_models

\* download_model up to the loop over candidate_urls: the path, and on
\* Windows the WinHTTP session; any other build returns false
DownloadBegin ==
    /\ mm_pc = "download_model"
    /\ mm_path' = get_model_file_path(mm_size)
    /\ url_i' = 1
    /\ dl_success' = FALSE
    /\ IF platform = "win32"
       THEN \E session \in BOOLEAN :
               IF session
               THEN /\ mm_pc' = "dl_open"
                    /\ UNCHANGED mm_returned
               ELSE /\ mm_pc' = "returned"
                    /\ mm_returned' = FALSE
       ELSE /\ mm_pc' = "returned"
            /\ mm_returned' = FALSE
    /\ UNCHANGED <<mm_call, mm_size, files, infos, platform, files_before,
                   mm_calls>>
    /\ UNCHANGED outside_models

\* the number of candidate_urls
NumUrls == 2

\* head of the loop over candidate_urls: leave it after the last address or
\* a success, else open the output file with std::ios::trunc
DownloadOpen ==
    /\ mm_pc = "dl_open"
    /\ IF url_i > NumUrls \/ dl_success
       THEN /\ mm_returned' = dl_success
            /\ mm_pc' = "returned"
            /\ UNCHANGED <<files, url_i>>
       ELSE /\ UNCHANGED mm_returned
            /\ \E opened \in BOOLEAN :
                  IF opened
                  THEN /\ files' = [files EXCEPT ![mm_path] = "empty"]
                       /\ mm_pc' = "dl_request"
                       /\ UNCHANGED url_i
                  ELSE /\ url_i' = url_i + 1
                       /\ UNCHANGED <<files, mm_pc>>
    /\ UNCHANGED <<mm_call, mm_size, mm_path, dl_success, infos, platform,
                   files_before, mm_calls>>
    /\ UNCHANGED outside_models

\* what one address can give: no connection or response, a redirect that
\* cannot be followed, a read that fails before or after the first bytes,
\* an empty body, or a body read to its end
RequestOutcomes ==
    {"no_response", "bad_redirect", "read_failed_at_start",
     "read_failed_midway", "empty_body", "body_read"}

\* the content of the file after the request: what ofs.write has written
Written(outcome) ==
    CASE outcome = "read_failed_midway" -> "partial"
      [] outcome = "body_read" -> "complete"
      [] OTHER -> "empty"

\* the clean-up after a failed address: the file is removed if it is empty
CleanUp(written) == IF written = "empty" THEN "absent" ELSE written

\* the redirect loop and the read loop for one address, ofs.close() and the
\* clean-up of a failed address; a body is longer than the buffer of the
\* stream, so what was written is on disk when file_size is read
DownloadRequest ==
    /\ mm_pc = "dl_request"
    /\ \E outcome \in RequestOutcomes :
          LET readOk  == outcome \in {"empty_body", "body_read"}
              written == Written(outcome)
              ok      == readOk /\ written \in {"partial", "complete"}
          IN  /\ dl_success' = ok
              /\ files' = [files EXCEPT
                              ![mm_path] = IF ok THEN written
                                           ELSE CleanUp(written)]
    /\ url_i' = url_i + 1
    /\ mm_pc' = "dl_open"
    /\ UNCHANGED <<mm_call, mm_size, mm_path, mm_returned, infos, platform,
                   files_before, mm_calls>>
    /\ UNCHANGED outside_models

\* sample directory contents: the files of two models, each absent or
\* complete
InitialFiles ==
    { [f \in FileNames |->
          IF f = get_model_file_path("base") THEN b
          ELSE IF f = get_model_file_path("tiny") THEN t
          ELSE "absent"] : b, t \in {"absent", "complete"} }

InitModels ==
    /\ JobsIdle
    /\ TimeIdle
    /\ GuiIdle
    /\ EmitterIdle
    /\ TranslatorIdle
    /\ MergeIdle
    /\ ProcessIdle
    /\ mm_pc = "ready"
    /\ mm_call = "none"
    /\ mm_size = "base"
    /\ mm_path = <<>>
    /\ files \in InitialFiles
    /\ url_i = 1
    /\ dl_success = FALSE
    /\ mm_returned = FALSE
    /\ infos = <<>>
    /\ platform \in {"win32", "other"}
    /\ files_before = files
    /\ mm_calls = 0

NextModels ==
    \/ ModelCall
    \/ IsDownloaded
    \/ ListModels
    \/ DeleteModel
    \/ DownloadBegin
    \/ DownloadOpen
    \/ DownloadRequest

SpecModels == InitModels /\ [][NextModels]_vars

----------------------------------------------------------------------------
(* Concurrent jobs: Processor::process called by several threads or
   processes of one machine.  Only the steps that touch the temporary
   directory are followed; a directory is the record of whether it exists
   and of the job whose audio its extracted_audio.wav holds (0: no file). *)

\* the concurrent jobs
Jobs == {1, 2}

\* sample values of dis(gen), from uniform_int_distribution<> dis(1000, 9999)
TempNumbers == {1000, 4321, 9999}

NoDir == [exists |-> FALSE, audio |-> 0]

\* Processor::create_temp_directory: create_directories of
\* temp_base / "video2srt_<number>" leaves an existing directory as it is
create_temp_directory(t, n) ==
    [t EXCEPT ![n] = IF t[n].exists THEN t[n] ELSE [exists |-> TRUE, audio |-> 0]]

\* Processor::cleanup_temp_files on the directories of all jobs: remove_all
\* if the directory exists
remove_temp_dir(t, n) == [t EXCEPT ![n] = NoDir]

\* Processor::process up to the return of create_temp_directory, the number
\* drawn by a generator seeded from std::random_device
JobCreateTempDirectory(j) ==
    /\ job_pc[j] = "start"
    /\ \E n \in TempNumbers :
          /\ job_dir' = [job_dir EXCEPT ![j] = n]
          /\ tmp' = create_temp_directory(tmp, n)
    /\ job_pc' = [job_pc EXCEPT ![j] = "extract"]
    /\ UNCHANGED job_read
    /\ UNCHANGED outside_jobs

\* Processor::process, audio extraction: extract_audio_to_wav creates the
\* parent directory again if it is gone and writes audio_path with
\* fopen(..., "wb"); a failure cleans up and returns
JobExtractAudio(j) ==
    /\ job_pc[j] = "extract"
    /\ \E ok \in BOOLEAN :
          IF ok
          THEN /\ tmp' = [tmp EXCEPT ![job_dir[j]] =
                              [exists |-> TRUE, audio |-> j]]
               /\ job_pc' = [job_pc EXCEPT ![j] = "transcribe"]
          ELSE /\ tmp' = remove_temp_dir(tmp, job_dir[j])
               /\ job_pc' = [job_pc EXCEPT ![j] = "returned"]
    /\ UNCHANGED <<job_dir, job_read>>
    /\ UNCHANGED outside_jobs

\* Processor::process, Transcriber::transcribe(audio_path): a missing file
\* throws, and the catch block of process returns without a cleanup
JobTranscribe(j) ==
    /\ job_pc[j] = "transcribe"
    /\ LET d == tmp[job_dir[j]]
       IN  IF ~d.exists \/ d.audio = 0
           THEN /\ job_read' = [job_read EXCEPT ![j] = "missing"]
                /\ job_pc' = [job_pc EXCEPT ![j] = "returned"]
           ELSE /\ job_read' = [job_read EXCEPT ![j] =
                                    IF d.audio = j THEN "own" ELSE "other"]
                /\ job_pc' = [job_pc EXCEPT ![j] = "cleanup"]
    /\ UNCHANGED <<job_dir, tmp>>
    /\ UNCHANGED outside_jobs

\* Processor::process, the cleanup_temp_files call after the save
JobCleanup(j) ==
    /\ job_pc[j] = "cleanup"
    /\ tmp' = remove_temp_dir(tmp, job_dir[j])
    /\ job_pc' = [job_pc EXCEPT ![j] = "returned"]
    /\ UNCHANGED <<job_dir, job_read>>
    /\ UNCHANGED outside_jobs

InitJobs ==
    /\ ModelsIdle
    /\ TimeIdle
    /\ GuiIdle
    /\ EmitterIdle
    /\ TranslatorIdle
    /\ MergeIdle
    /\ ProcessIdle
    /\ job_pc = [j \in Jobs |-> "start"]
    /\ job_dir = [j \in Jobs |-> 0]
    /\ job_read = [j \in Jobs |-> "none"]
    /\ tmp = [n \in TempNumbers |-> NoDir]

NextJobs ==
    \E j \in Jobs :
        \/ JobCreateTempDirectory(j)
        \/ JobExtractAudio(j)
        \/ JobTranscribe(j)
        \/ JobCleanup(j)

SpecJobs == InitJobs /\ [][NextJobs]_vars

----------------------------------------------------------------------------
(* Properties of the timing pre-pass (specification Spec) *)

\* the pre-pass has returned: fixed is what the emitter serialises
PrepassDone == pc = "emit"

Overlapping(a, b) == a.start <= b.start /\ b.start < a.end

\* C1: for min_duration >= 0 the output of the pre-pass of every emitter is
\* ordered and overlap-free: start[i] <= start[i+1] and end[i] <= start[i+1]
C1_OrderedNoOverlap ==
    (PrepassDone /\ min_duration >= 0) =>
        \A i \in 1 .. Len(fixed) - 1 :
            /\ fixed[i].start <= fixed[i + 1].start
            /\ fixed[i].end <= fixed[i + 1].start

\* two non-blank input segments that overlap went through the pre-pass
C1_Witness ==
    /\ PrepassDone
    /\ min_duration >= 0
    /\ Len(segments) = 2
    /\ Len(fixed) = 2
    /\ Overlapping(segments[1], segments[2])

\* C2: every output segment of the pre-pass of every emitter lasts at least
\* min_duration
C2_MinDurationAllFormats ==
    PrepassDone =>
        \A i \in 1 .. Len(fixed) :
            fixed[i].end - fixed[i].start >= min_duration

\* C3: for min_duration >= 0 every output segment is valid: start >= 0,
\* end > start, text not empty after trimming
C3_OutputValid ==
    (PrepassDone /\ min_duration >= 0) =>
        \A i \in 1 .. Len(fixed) :
            /\ fixed[i].start >= 0
            /\ fixed[i].end > fixed[i].start
            /\ trim(fixed[i].text) # <<>>

TextsOf(segs) == { segs[i].text : i \in 1 .. Len(segs) }

CountText(segs, t) == Cardinality({ i \in 1 .. Len(segs) : segs[i].text = t })

CountTrimmed(segs, t) ==
    Cardinality({ i \in 1 .. Len(segs) :
                    NonBlank(segs[i]) /\ trim(segs[i].text) = t })

\* C4: the pre-pass outputs one segment per input segment with non-blank
\* text and none for a blank one, whatever the times, and the outputs carry
\* the trimmed texts of those inputs (each text as often as it came in)
C4_OnePerNonBlank ==
    (pc \in {"emit", "done"}) =>
        /\ Len(fixed) =
             Cardinality({ i \in 1 .. Len(segments) : NonBlank(segments[i]) })
        /\ \A t \in TextsOf(fixed) \cup { trim(x) : x \in TextsOf(segments) } :
               t # <<>> => CountText(fixed, t) = CountTrimmed(segments, t)

\* two overlapping non-blank inputs, the later one with a negative start
\* or no duration, both came out
C4_Witness ==
    /\ PrepassDone
    /\ Len(segments) = 2
    /\ Len(fixed) = 2
    /\ \E i, j \in 1 .. 2 :
          /\ i # j
          /\ Overlapping(segments[i], segments[j])
          /\ segments[j].end <= segments[j].start
          /\ segments[i].start < 0

----------------------------------------------------------------------------
(* Properties of the bilingual combiners (specification SpecBilingual) *)

\* the combiner has built the list it hands to format_segments
Combined == entry = "create_bilingual" /\ pc # "create_bilingual"

SameLength == Len(original_segments) = Len(translated_segments)

\* C5: with lists of equal length n the combiner builds n segments, the i-th
\* with original[i]'s start and end and the text original[i].text, newline,
\* translated[i].text
C5_BilingualAligned ==
    (Combined /\ SameLength) =>
        /\ Len(segments) = Len(original_segments)
        /\ \A i \in 1 .. Len(segments) :
              /\ segments[i].start = original_segments[i].start
              /\ segments[i].end = original_segments[i].end
              /\ Len(segments[i].text) =
                    Len(original_segments[i].text) + 1
                      + Len(translated_segments[i].text)
              /\ \A k \in 1 .. Len(segments[i].text) :
                    segments[i].text[k] =
                      IF k <= Len(original_segments[i].text)
                      THEN original_segments[i].text[k]
                      ELSE IF k = Len(original_segments[i].text) + 1
                      THEN "\n"
                      ELSE translated_segments[i].text[
                             k - Len(original_segments[i].text) - 1]

\* two originals and two translations, all different, were combined
C5_Witness ==
    /\ Combined
    /\ Len(original_segments) = 2
    /\ Len(translated_segments) = 2
    /\ original_segments[1] # original_segments[2]
    /\ translated_segments[1].text # translated_segments[2].text

HasTranslatedChar(t) == \E k \in 1 .. Len(t) : t[k] \in {"x", "y"}

\* C6: with lists of unequal length the combiner formats the original list
\* alone: the list handed to format_segments is the original one and no cue
\* of the pre-pass carries translated text
C6_MismatchFormatsOriginal ==
    (Combined /\ ~SameLength) =>
        /\ segments = original_segments
        /\ \A i \in 1 .. Len(fixed) :
              /\ ~HasTranslatedChar(fixed[i].text)
              /\ fixed[i].text \in { trim(t) : t \in TextsOf(original_segments) }

\* two originals and one translation went through an emitter
C6_Witness ==
    /\ Combined
    /\ PrepassDone
    /\ Len(original_segments) = 2
    /\ Len(translated_segments) = 1
    /\ Len(fixed) = 2

----------------------------------------------------------------------------
(* Properties of the translators (specification SpecTranslate) *)

Translated == tpc = "t_done"

\* C7: whatever each network call did, translate_segments of every
\* translator returns as many segments as it was given, the i-th with the
\* start and end of the i-th input
C7_SameCardinalityAndOrder ==
    Translated =>
        /\ Len(result_segments) = Len(in_segments)
        /\ \A i \in 1 .. Len(in_segments) :
              /\ result_segments[i].start = in_segments[i].start
              /\ result_segments[i].end = in_segments[i].end

\* a google call returned for three segments of different timing, one of
\* them after its translation failed
C7_Witness ==
    /\ Translated
    /\ translator = "google"
    /\ Len(in_segments) = 3
    /\ in_segments[1].start # in_segments[2].start
    /\ \E i, j \in 1 .. 3 :
          /\ result_segments[i].text = in_segments[i].text
          /\ result_segments[j].text = Tr(1)

\* the groups have been computed
Grouped == batch_mode /\ tpc \in {"openai_batch", "t_done"}

RECURSIVE Flatten(_)
Flatten(gs) == IF gs = <<>> THEN <<>> ELSE Head(gs) \o Flatten(Tail(gs))

\* C8: the groups partition the input indices: each is non-empty and their
\* concatenation is 1, 2, ..., n; an empty input gives no groups
C8_GroupsPartition ==
    Grouped =>
        /\ \A g \in 1 .. Len(groups) : groups[g] # <<>>
        /\ Flatten(groups) = [i \in 1 .. Len(in_segments) |-> i]
        /\ in_segments = <<>> => groups = <<>>

\* three segments were split into more than one group, one of several indices
C8_Witness ==
    /\ Grouped
    /\ Len(in_segments) = 3
    /\ Len(groups) = 2
    /\ Len(groups[1]) = 2

RECURSIVE SumLen(_, _)
SumLen(segs, group) ==
    IF group = <<>> THEN 0
    ELSE Len(segs[Head(group)].text) + SumLen(segs, Tail(group))

\* C9 as claimed: every group respects both limits: the lengths of its texts
\* sum to at most max_chars and it holds at most max_segments indices
C9_GroupsRespectBothLimits ==
    Grouped =>
        \A g \in 1 .. Len(groups) :
            /\ SumLen(in_segments, groups[g]) <= max_batch_chars
            /\ Len(groups[g]) <= Max(1, max_batch_segments)

\* C9 as amended: every group holds at most max_segments indices, and the
\* lengths of its texts sum to at most max_chars unless it is a single
\* segment whose text alone is longer than max_chars
C9_GroupsRespectLimitsButSingletons ==
    Grouped =>
        \A g \in 1 .. Len(groups) :
            /\ Len(groups[g]) <= Max(1, max_batch_segments)
            /\ \/ SumLen(in_segments, groups[g]) <= max_batch_chars
               \/ /\ Len(groups[g]) = 1
                  /\ Len(in_segments[groups[g][1]].text) > max_batch_chars

\* a group of two segments that fills max_chars > 0 exactly, followed by a
\* segment longer than max_chars in a group of its own
C9_Witness ==
    /\ Grouped
    /\ max_batch_chars > 0
    /\ Len(groups) = 2
    /\ Len(groups[1]) = 2
    /\ SumLen(in_segments, groups[1]) = max_batch_chars
    /\ SumLen(in_segments, groups[2]) > max_batch_chars

\* C10: in batch translation position i of a finished group has the i-th
\* returned string where the provider returned one and the original text in
\* the remaining tail; the call goes on with the next group and returns only
\* after every group was sent, with a full result
C10_ShortResponseKeepsTail ==
    batch_mode =>
        /\ \A g \in 1 .. Len(translated_lists) :
              \A i \in 1 .. Len(groups[g]) :
                  result_segments[groups[g][i]].text =
                      IF i <= Len(translated_lists[g])
                      THEN translated_lists[g][i]
                      ELSE in_segments[groups[g][i]].text
        /\ tpc = "openai_batch" => Len(translated_lists) = cur - 1
        /\ Translated =>
              /\ Len(translated_lists) = Len(groups)
              /\ Len(result_segments) = Len(in_segments)

\* the provider answered the first group, of two segments, with one string,
\* and the second group was then translated in full
C10_Witness ==
    /\ Translated
    /\ batch_mode
    /\ Len(groups) = 2
    /\ Len(groups[1]) = 2
    /\ translated_lists[1] = <<Tr(1)>>
    /\ result_segments[groups[1][2]].text = in_segments[groups[1][2]].text
    /\ in_segments[groups[1][2]].text # <<>>
    /\ translated_lists[2] = <<Tr(1)>>
    /\ result_segments[groups[2][1]].text = Tr(1)


----------------------------------------------------------------------------
(* Properties of merge_segments (specification SpecMerge) *)

MergeDone == mpc = "m_done"

\* C11: each iteration of the merge loop merges the next segment into the
\* accumulator exactly when next.end - current.start <= max_duration, the
\* joined text (one space between) has at most max_chars characters and
\* next.start - current.end <= 2.0 s; otherwise the accumulator is emitted
\* and the next segment becomes the accumulator; what was emitted or merged
\* before stays as it was
C11_MergeIffThreeConditions ==
    [][ (mpc = "m_loop" /\ mi <= Len(m_segments) /\ mi' # mi) =>
          LET next_seg == m_segments[mi]
              joined   == current.text \o <<" ">> \o next_seg.text
          IN  IF /\ next_seg.end - current.start <= m_max_duration
                 /\ Len(joined) <= m_max_chars
                 /\ next_seg.start - current.end <= 4
              THEN /\ merged' = merged
                   /\ current' = Segment(current.start, next_seg.end, joined)
              ELSE /\ merged' = Append(merged, current)
                   /\ current' = next_seg ]_vars

C11_Witness ==
    /\ MergeDone
    /\ Len(m_segments) = 3
    /\ Len(merged) = 2
    /\ \E k \in 1 .. 2 : Len(merged[k].text) > 2

\* C12: when every segment of a non-empty input merges into one, that one
\* starts where the first input segment starts and ends where the last
\* input segment ends
C12_SpanPreserved ==
    (MergeDone /\ m_segments # <<>> /\ Len(merged) = 1) =>
        /\ merged[1].start = m_segments[1].start
        /\ merged[1].end = m_segments[Len(m_segments)].end

C12_Witness ==
    /\ MergeDone
    /\ Len(m_segments) = 3
    /\ Len(merged) = 1
    /\ m_segments[3].end # m_segments[1].end

\* number of characters of all texts joined with single spaces
RECURSIVE TotalChars(_)
TotalChars(segs) ==
    IF segs = <<>> THEN 0
    ELSE Len(Head(segs).text)
         + (IF Len(segs) > 1 THEN 1 ELSE 0) + TotalChars(Tail(segs))

\* max_duration and max_chars can block no merge of this input
Generous ==
    /\ m_max_chars >= TotalChars(m_segments)
    /\ \A i, j \in 1 .. Len(m_segments) :
           m_segments[j].end - m_segments[i].start <= m_max_duration

\* C13: with max_duration and max_chars large enough never to block a
\* merge, merging the output of merge_segments again with the same
\* thresholds returns it unchanged
C13_Idempotent ==
    (MergeDone /\ Generous) =>
        merge_segments(merged, m_max_duration, m_max_chars) = merged

C13_Witness ==
    /\ MergeDone
    /\ Generous
    /\ Len(m_segments) = 3
    /\ Len(merged) = 2
    /\ merge_segments(merged, m_max_duration, m_max_chars) = merged

\* C22: every segment merge_segments returns respects the configured
\* maxima: end - start <= max_segment_duration and the text has at most
\* max_segment_chars characters
C22_MergedRespectMaxima ==
    MergeDone =>
        \A k \in 1 .. Len(merged) :
            /\ merged[k].end - merged[k].start <= m_max_duration
            /\ Len(merged[k].text) <= m_max_chars

\* the texts of segs[i .. j] joined by single spaces
RECURSIVE JoinTexts(_, _, _)
JoinTexts(segs, i, j) ==
    IF i = j THEN segs[i].text
    ELSE JoinTexts(segs, i, j - 1) \o <<" ">> \o segs[j].text

\* out is segs cut into consecutive non-empty runs, ends[k] being the index
\* of the last segment of run k: every segment is in exactly one run, in
\* order, and out[k] has the start of the first segment of its run, the end
\* of the last one and the texts of the run joined by single spaces
IsRunsOf(out, segs, ends) ==
    /\ ends[Len(out)] = Len(segs)
    /\ \A k \in 1 .. Len(out) :
           LET first == IF k = 1 THEN 1 ELSE ends[k - 1] + 1
           IN  /\ first <= ends[k]
               /\ out[k].start = segs[first].start
               /\ out[k].end = segs[ends[k]].end
               /\ out[k].text = JoinTexts(segs, first, ends[k])

\* C27: merge_segments loses, duplicates and reorders nothing, whatever the
\* input and the thresholds: its output is the input cut into consecutive
\* runs that cover every input segment exactly once in order, each output
\* segment having the start of the first segment of its run, the end of
\* the last one and the texts of the run joined by single spaces
C27_MergeKeepsEverything ==
    MergeDone =>
        IF m_segments = <<>> THEN merged = <<>>
        ELSE /\ merged # <<>>
             /\ \E ends \in [1 .. Len(merged) -> 1 .. Len(m_segments)] :
                    IsRunsOf(merged, m_segments, ends)

C27_Witness ==
    /\ MergeDone
    /\ Len(m_segments) = 3
    /\ Len(merged) = 2
    /\ m_segments[1].start > m_segments[2].start
    /\ merged[1].text = JoinTexts(m_segments, 1, 2)

----------------------------------------------------------------------------
(* The three pre-passes compared on one input (specification Spec) *)

\* the second loop of the pre-pass of format f, from index i on
RECURSIVE OverlapLoop(_, _, _, _, _)
OverlapLoop(f, segs, md, i, le) ==
    IF i > Len(segs)
    THEN segs
    ELSE LET s == OverlapOne(f, segs[i], le, md)
         IN  OverlapLoop(f, [segs EXCEPT ![i] = s], md, i + 1, s.end)

\* every vector the pre-pass of format f can return for segs and md
PrepassResults(f, segs, md) ==
    IF f = "srt" /\ segs = <<>>
    THEN { <<>> }
    ELSE { OverlapLoop(f, r, md, 1, 0) :
             r \in SortResults(NormalizeAll(f, segs, md)) }

\* the input has the times a transcriber produces: 0 <= start < end
WellTimed(segs) ==
    \A i \in 1 .. Len(segs) : 0 <= segs[i].start /\ segs[i].start < segs[i].end

\* C14: for a well-timed segment list and a positive min_duration, the
\* corrected sequence of (start, end, text) one emitter serialises is one
\* that each of the other two emitters serialises for the same input
C14_SameCorrection ==
    (PrepassDone /\ min_duration > 0 /\ WellTimed(segments)) =>
        \A f \in Formats : fixed \in PrepassResults(f, segments, min_duration)

----------------------------------------------------------------------------
(* Properties of the SRT serialisation (specification Spec) *)

\* format_segments has returned its string
Emitted == pc = "done"

\* the lines of a text: each line feed ends a line
RECURSIVE LinesFrom(_, _, _)
LinesFrom(t, line, acc) ==
    IF t = <<>>
    THEN IF line = <<>> THEN acc ELSE Append(acc, line)
    ELSE IF Head(t) = "\n"
         THEN LinesFrom(Tail(t), <<>>, Append(acc, line))
         ELSE LinesFrom(Tail(t), Append(line, Head(t)), acc)

Lines(t) == LinesFrom(t, <<>>, <<>>)

\* number of input segments whose text is not blank
NonBlankCount(segs) == Len(SelectSeq(segs, NonBlank))

\* C19: the SRT output for an input of which k segments have non-blank text
\* (texts of one line) consists of k blocks of three non-empty lines, the
\* first line of the j-th block is the number j, one empty line stands
\* between consecutive blocks and nowhere else, and k = 0 gives the empty
\* string
C19_SrtBlocksNumbered ==
    (Emitted /\ fmt = "srt") =>
        LET k  == NonBlankCount(segments)
            ls == Lines(content)
        IN  /\ k = 0 => content = <<>>
            /\ k > 0 => Len(ls) = 4 * k - 1
            /\ k > 0 =>
                 \A n \in 1 .. Len(ls) :
                    /\ (n % 4 = 0) <=> (ls[n] = <<>>)
                    /\ (n % 4 = 1) =>
                          ls[n] = << <<"1", "2", "3", "4", "5">>[(n + 3) \div 4] >>

C19_Witness ==
    /\ Emitted
    /\ fmt = "srt"
    /\ Len(segments) = 2
    /\ NonBlankCount(segments) = 2
    /\ Len(Lines(content)) = 7
    /\ Lines(content)[4] = <<>>
    /\ Lines(content)[5] = <<"2">>

----------------------------------------------------------------------------
(* Properties of Processor::process (specification SpecProcess) *)

Range(f) == { f[i] : i \in DOMAIN f }

\* the pre-pass of the emitter that process called is at work or has
\* returned its vector
PrepassForProcess ==
    ppc = "save" /\ pc \in {"sort", "overlap", "emit"} /\ fixed # <<>>

\* C15: the timing pre-pass that runs for a Processor::process call uses the
\* configured min_segment_duration, whatever the format and the mode
C15_ConfiguredMinDuration ==
    PrepassForProcess => min_duration = config_.min_segment_duration

Returned == ppc = "returned"

\* C18: after a failed save, process returns success = false with a message
\* that contains the output path, has called a save function exactly once
\* and has not reported progress 1.0
C18_SaveFailure ==
    (Returned /\ save_calls > 0 /\ ~save_ok) =>
        /\ p_result.success = FALSE
        /\ OutputPath \in Range(p_result.error_message)
        /\ save_calls = 1
        /\ 100 \notin Range(progress)

C18_Witness ==
    /\ Returned
    /\ save_calls = 1
    /\ ~save_ok
    /\ Len(fixed) = 2
    /\ Len(progress) > 5
    /\ temp_dir = "removed"

\* C24: when process returns after create_temp_directory has run, the
\* temporary directory has been removed, on every way out
C24_TempDirRemoved ==
    Returned => temp_dir # "present"

----------------------------------------------------------------------------
(* What the caller of a bilingual combiner receives (SpecBilingual) *)

\* the list create_bilingual_<f> hands to format_segments
create_bilingual(f, orig, trans) ==
    CASE f = "srt" -> create_bilingual_srt(orig, trans)
      [] f = "vtt" -> create_bilingual_vtt(orig, trans)
      [] f = "ass" -> create_bilingual_ass(orig, trans)

\* every string create_bilingual_<f>(orig, trans) can return; the string is
\* all the function returns
BilingualReturns(f, orig, trans, md) ==
    { Serialise(f, r) :
        r \in PrepassResults(f, create_bilingual(f, orig, trans),
                             BilingualMinDuration(f, md)) }

\* C16: the caller can tell a length mismatch from what the combiner
\* returns: the value returned for a mismatched translation is not a value
\* the combiner returns for the same originals with a translation of the
\* right length
C16_MismatchSignalled ==
    (Combined /\ Emitted /\ ~SameLength) =>
        \A trans \in BiTranslatedLists(original_segments) :
            Len(trans) = Len(original_segments) =>
                content \notin BilingualReturns(fmt, original_segments, trans,
                                                caller_min_duration)

----------------------------------------------------------------------------
(* Properties of the retry loops (specification SpecTranslate) *)

\* a translate_text or translate_texts_batch call has returned
CallReturned == cur > 1

\* the argument of the call that returned last
LastInput ==
    IF batch_mode
    THEN GroupTexts(in_segments, groups[cur - 1])
    ELSE in_segments[cur - 1].text

----------------------------------------------------------------------------
(* Properties of the Qt application (specification SpecGui) *)

\* the worker thread has been started and has not yet emitted finished
WorkerRunning == wpc \in {"started", "reading", "running"}

\* C20: while the worker thread runs, ModelManager::s_model_dir, which the
\* worker reads when it loads the model, is not changed
C20_ModelDirStableWhileWorkerRuns ==
    [][ WorkerRunning => s_model_dir' = s_model_dir ]_vars

----------------------------------------------------------------------------
(* Properties of the timestamps (specification SpecTime) *)

TimeReturned == ts_pc = "returned"

\* the value of a decimal digit character, -1 for any other character
DigitValue(ch) ==
    IF \E d \in 0 .. 9 : Digit(d) = ch
    THEN CHOOSE d \in 0 .. 9 : Digit(d) = ch
    ELSE -1

\* the number the characters i .. j of t spell, -1 unless all are digits
RECURSIVE FieldValue(_, _, _)
FieldValue(t, i, j) ==
    IF i > j THEN 0
    ELSE LET rest == FieldValue(t, i, j - 1)
             d    == DigitValue(t[j])
         IN  IF rest < 0 \/ d < 0 THEN -1 ELSE 10 * rest + d

\* t is HH:MM:SS<sep>mmm, zero-padded to 2/2/2/3 digits, and spells the
\* time of ms milliseconds
Encodes(t, sep, ms) ==
    /\ Len(t) = 12
    /\ t[3] = ":" /\ t[6] = ":" /\ t[9] = sep
    /\ LET hh  == FieldValue(t, 1, 2)
           mm  == FieldValue(t, 4, 5)
           ss  == FieldValue(t, 7, 8)
           mmm == FieldValue(t, 10, 12)
       IN  /\ hh >= 0
           /\ mm \in 0 .. 59
           /\ ss \in 0 .. 59
           /\ mmm \in 0 .. 999
           /\ hh * 3600000 + mm * 60000 + ss * 1000 + mmm = ms

\* C21: the timestamp format_srt_time / format_vtt_time returns for a time
\* of a whole number of milliseconds spells exactly that time, in fields
\* zero-padded to 2/2/2/3 digits with MM, SS in 0..59 and mmm in 0..999;
\* a negative time is printed as zero
C21_TimestampExact ==
    TimeReturned =>
        Encodes(timestamp, IF ts_formatter = "srt" THEN "," ELSE ".",
                IF seconds_ms < 0 THEN 0 ELSE seconds_ms)

----------------------------------------------------------------------------
(* Properties of the sort and the overlap loop (specification Spec) *)

\* C25: an overlap is resolved only by moving the later segment forward:
\* an iteration of the overlap loop sets the start of its segment to the
\* larger of that start and the previous segment's corrected end and
\* changes no other segment; for 0.0-2.0 Hello, 1.5-3.0 World and
\* min_duration 0.5 the SRT output has exactly two blocks, the first
\* 00:00:00,000 --> 00:00:02,000 and the second starting at 00:00:02,000
C25_OnlyLaterSegmentMoves ==
    [][ /\ (pc = "overlap" /\ pos <= Len(fixed) /\ pos' # pos) =>
              /\ Len(fixed') = Len(fixed)
              /\ fixed'[pos].start =
                    Max(fixed[pos].start,
                        IF pos = 1 THEN 0 ELSE fixed[pos - 1].end)
              /\ fixed'[pos].text = fixed[pos].text
              /\ \A k \in 1 .. Len(fixed) : k # pos => fixed'[k] = fixed[k]
        /\ (/\ pc = "emit" /\ pc' = "done" /\ fmt = "srt"
            /\ segments = HelloWorld /\ min_duration = 1) =>
              LET ls   == Lines(content')
                  zero == <<"0", "0", ":", "0", "0", ":", "0", "0", ",",
                            "0", "0", "0">>
                  two  == <<"0", "0", ":", "0", "0", ":", "0", "2", ",",
                            "0", "0", "0">>
              IN  /\ Len(ls) = 7
                  /\ ls[1] = <<"1">> /\ ls[5] = <<"2">>
                  /\ ls[2] = zero \o <<" --> ">> \o two
                  /\ SubSeq(ls[6], 1, 12) = two
                  /\ ls[3] = HelloWorld[1].text /\ ls[4] = <<>>
                  /\ ls[7] = HelloWorld[2].text ]_vars

C25_Witness ==
    /\ Emitted
    /\ fmt = "srt"
    /\ segments = HelloWorld
    /\ fixed[2].start = 4
    /\ Len(Lines(content)) = 7

\* the results of a stable sort of s by start: ordered by start, and
\* segments of equal start in the order they have in s
StableSortResults(s) ==
    { [i \in 1 .. Len(s) |-> s[p[i]]] :
        p \in { q \in Perms(Len(s)) :
                  \A i, j \in 1 .. Len(s) :
                     i < j => \/ s[q[i]].start < s[q[j]].start
                              \/ (s[q[i]].start = s[q[j]].start
                                  /\ q[i] < q[j]) } }

\* C26: the sort of the pre-pass is stable, in the SRT, VTT and ASS pre-pass
\* alike: segments of equal start keep their relative order
C26_SortStable ==
    [][ (pc = "sort" /\ pc' = "overlap") =>
            fixed' \in StableSortResults(fixed) ]_vars

----------------------------------------------------------------------------
(* Properties of ModelManager (specification SpecModels) *)

ModelReturned == mm_pc = "returned"

Listed == { ListedModels[k] : k \in 1 .. Len(ListedModels) }

\* the model file of the identifier s: ggml-<s>.bin
ModelFile(s) == <<"ggml-", s, ".bin">>

\* C23: is_downloaded, download_model and delete_model called for a listed
\* model work on the file ggml-<identifier>.bin and leave the file of every
\* other model as it was
C23_ListedModelOwnFile ==
    (/\ ModelReturned
     /\ mm_call \in {"is_downloaded", "download_model", "delete_model"}
     /\ mm_size \in Listed) =>
        /\ mm_path = ModelFile(mm_size)
        /\ \A f \in FileNames :
              f # ModelFile(mm_size) => files[f] = files_before[f]

\* C30: when download_model has returned false, the model path holds no
\* file or the complete file it held before the call, never an empty or
\* partly written one
C30_DownloadAllOrNothing ==
    (ModelReturned /\ mm_call = "download_model" /\ ~mm_returned) =>
        \/ files[mm_path] = "absent"
        \/ /\ files[mm_path] = "complete"
           /\ files_before[mm_path] = "complete"

----------------------------------------------------------------------------
(* Properties of the worker life cycle (specification SpecGuiFair) *)

\* C28: the starts of workers and the handlings of finished alternate, so
\* that at most one worker runs at a time: a worker is started only while
\* m_processing is false, m_processing is true from the start until
\* onFinished has handled the finished signal of that worker, every started
\* worker emits finished once, and the run ends with the controls enabled
\* again.
C28_StartsAndFinishesAlternate ==
    /\ [](/\ handled <= emitted
          /\ emitted <= started
          /\ started <= handled + 1
          /\ m_processing <=> started > handled
          /\ finished_queued <=> emitted > handled
          /\ ~m_processing => start_enabled)
    /\ [][started' # started => ~m_processing /\ started' = started + 1]_vars
    /\ [][emitted' # emitted => emitted = handled /\ emitted' = started]_vars
    /\ (m_processing ~> (~m_processing /\ start_enabled /\ emitted = started))

\* two workers have been started and finished one after the other
C28_Witness ==
    /\ started = MaxRuns
    /\ handled = MaxRuns
    /\ ~m_processing
    /\ start_enabled

----------------------------------------------------------------------------
(* Properties of concurrent jobs (specification SpecJobs) *)

\* the job is between create_temp_directory and its return
UsesTempDir(j) == job_pc[j] \in {"extract", "transcribe", "cleanup"}

\* C29: two overlapping Processor::process calls never use the same
\* temporary directory, and a job that has extracted its audio finds its
\* own audio file when it transcribes.
C29_JobsUseDistinctTempDirs ==
    /\ \A j, k \in Jobs :
          j # k /\ UsesTempDir(j) /\ UsesTempDir(k) => job_dir[j] # job_dir[k]
    /\ \A j \in Jobs : job_read[j] \in {"none", "own"}

============================================================================
